---- MODULE Spec2Model ----
(***************************************************************************)
(* Decision cycle pipeline of the trading bot (market package):           *)
(* response parsing, decision validation and GetFullTradingDecision.      *)
(*                                                                         *)
(* Text is a sequence of lexical units: one unit per punctuation or       *)
(* whitespace character, one unit per run of ordinary letters ("word")    *)
(* and one unit per numeral.  The multi-byte quotation marks U+201C,      *)
(* U+201D, U+2018, U+2019 are the units "u201c", "u201d", "u2018",        *)
(* "u2019"; none of their UTF-8 bytes is '[', ']' or white space, so the  *)
(* byte scans of the source see them as ordinary bytes.                   *)
(*                                                                         *)
(* Amounts in USD (float64 in the source) are integers counting 1/1000    *)
(* USD, so that x * 1.5, x * 10 and x * 0.01 are exact on the amounts     *)
(* used.                                                                   *)
(***************************************************************************)
EXTENDS Integers, Sequences, FiniteSets, TLC

VARIABLES
    pc,           \* "idle" between cycles, "returned" after GetFullTradingDecision
    equity,       \* ctx.Account.TotalEquity of the current call
    aiResponse,   \* aiResponse returned by callAIWithMessages
    aiErr,        \* err returned by callAIWithMessages
    decision,     \* decision returned by parseFullDecisionResponse (line 747)
    err,          \* err returned by parseFullDecisionResponse (line 747)
    retDecision,  \* first return value of GetFullTradingDecision
    retErr,       \* second return value of GetFullTradingDecision
    stages,       \* the functions GetFullTradingDecision has run, in order
    vDecisions,   \* argument decisions of validateDecisions
    vEquity,      \* argument accountEquity of validateDecisions
    vResult,      \* result of validateDecisions
    ctx,          \* *TradingContext given to fetchMarketDataForContext
    source,       \* what GetMarketData returns for each symbol
    oiTop,        \* what pool.GetOITopPositions returns
    fetchRet,     \* error returned by fetchMarketDataForContext
    defaultConfig,\* the package variable defaultConfig (AIConfig)
    gwPc,         \* callDeepSeekAPI: "idle", "loop" (at the head of the loop
                  \* body) or "returned"
    attempt,      \* callDeepSeekAPI: the loop variable attempt
    lastErr,      \* callDeepSeekAPI: lastErr
    gwLog,        \* the calls of callDeepSeekAPIOnce made so far, in order
    gwWaits,      \* the seconds slept between the attempts, in order
    gwRet,        \* (string, error) returned by callDeepSeekAPI
    aSharpe,      \* argument sharpe of getAdaptiveBehaviorRecommendation
    aEquity,      \* argument accountEquity of getAdaptiveBehaviorRecommendation
    aText,        \* the string getAdaptiveBehaviorRecommendation returned
    pCtx,         \* the *TradingContext handed to buildUserPrompt
    prompt,       \* the string buildUserPrompt returned
    isRunning,    \* the running flag of the AutoTrader (status "is_running")
    runs,         \* the goroutines launched to call trader.Run(), by launcher
    reqPc,        \* position of each start request
    dbIsRunning,  \* column is_running of the trader's row
    setterOf,     \* the configuration function each trading instance uses
    instPc,       \* position of each trading instance: phase and step
    request,      \* the HTTP request each instance's AI call has built
    defaultScanConfig, \* the package variable defaultScanConfig (ScanConfig)
    scanInput,    \* argument symbols of ScanMarket, each with what its scan yields
    scanPc,       \* position of ScanMarket
    workerPc,     \* position of each worker goroutine, by index of its symbol
    semaphore,    \* number of elements in the channel semaphore
    oppChan,      \* contents of the channel oppChan
    errChan,      \* contents of the channel errChan
    chansClosed,  \* the closer goroutine has closed oppChan and errChan
    collector,    \* the collector's variables oppChan and errChan: open or nil
    opportunities,\* the slice opportunities of the collector
    errorCount,   \* the counter errorCount of the collector
    scanRet,      \* ([]*TradingOpportunity, error) returned by ScanMarket
    symIn,        \* what scanSymbol obtains: market data and AI signal, or an error
    symRet,       \* (*TradingOpportunity, error) returned by scanSymbol
    symScore,     \* the value calculatePriorityScore returned
    signalText,   \* the aiResponse handed to parseAIResponse
    parseRet      \* (*TradingSignal, error) returned by parseAIResponse, or its panic

coreVars == <<pc, equity, aiResponse, aiErr, decision, err, retDecision, retErr,
              stages, vDecisions, vEquity, vResult>>

fetchVars == <<ctx, source, oiTop, fetchRet>>

\* the variables of the components other than the decision cycle and the
\* validator
gatewayVars == <<defaultConfig, gwPc, attempt, lastErr, gwLog, gwWaits, gwRet>>

adaptiveVars == <<aSharpe, aEquity, aText>>

promptVars == <<pCtx, prompt>>

lifecycleVars == <<isRunning, runs, reqPc, dbIsRunning>>

configVars == <<setterOf, instPc, request>>

scanVars == <<defaultScanConfig, scanInput, scanPc, workerPc, semaphore, oppChan,
              errChan, chansClosed, collector, opportunities, errorCount, scanRet>>

symbolVars == <<symIn, symRet, symScore>>

\* the pure functions of the scanner and of the gateway, applied on their own
parseVars == <<signalText, parseRet>>

tailVars == <<symbolVars, parseVars>>

\* the trader lifecycle and the components around the decision engine
systemVars == <<lifecycleVars, configVars, scanVars, tailVars>>

extVars == <<fetchVars, gatewayVars, adaptiveVars, promptVars, systemVars>>

vars == <<coreVars, extVars>>

----------------------------------------------------------------------------
(* Lexical units *)

LB  == "["
RB  == "]"
DQ  == "\""
SQ  == "'"
LDQ == "u201c"
RDQ == "u201d"
LSQ == "u2018"
RSQ == "u2019"
SP  == " "
NL  == "\n"

WhiteSpace == {SP, NL}

\* UsdUnits(n): n USD as an amount of the model
UsdUnits(n) == n * 1000

\* least and greatest element of a non-empty set of integers
MinOf(S) == CHOOSE i \in S : \A j \in S : i <= j

MaxOf(S) == CHOOSE i \in S : \A j \in S : j <= i

\* strings.Index(s, c): 0-based index of the first c in s, -1 when absent
Index(s, c) ==
    LET at == {i \in 1..Len(s) : s[i] = c}
    IN  IF at = {} THEN -1 ELSE MinOf(at) - 1

\* s[lo:hi] of Go
Slice(s, lo, hi) == SubSeq(s, lo + 1, hi)

\* strings.TrimSpace: s from its first to its last unit that is not white space
TrimSpace(s) ==
    LET ink == {i \in 1..Len(s) : s[i] \notin WhiteSpace}
    IN  IF ink = {} THEN <<>> ELSE SubSeq(s, MinOf(ink), MaxOf(ink))

----------------------------------------------------------------------------
(* encoding/json as used by extractDecisions: json.Unmarshal into          *)
(* []TradingDecision.  The text is first checked as JSON, then decoded.    *)
(* Object keys are matched to the json tags of the struct as written (the  *)
(* responses of the model spell them in lower case).                       *)

\* Numerals that occur in responses; every numeral but "1.5" is the decimal
\* form of an integer of NumeralInts.
NumeralInts == {-1, 0, 1, 2, 20, 21, 30, 50, 51, 60, 90, 100, 1000, 2000, 5000}

FractionNumeral == "1.5"

IsNumeral(tok) ==
    tok = FractionNumeral \/ \E n \in NumeralInts : ToString(n) = tok

NumeralIsInt(tok) == tok # FractionNumeral

\* value of an integer numeral
NumeralInt(tok) == CHOOSE n \in NumeralInts : ToString(n) = tok

\* value of a numeral decoded into a float64 amount
NumeralUnits(tok) ==
    IF tok = FractionNumeral THEN 1500 ELSE UsdUnits(NumeralInt(tok))

JsonSpace == {SP, NL}

JsonLiterals == {"null", "true", "false"}

\* Syntax check (the scanner of encoding/json): a pushdown automaton that
\* reads the text unit by unit.  mode is what the scanner expects next ("str"
\* and "keystr": the rest of a string value or of a key); stack holds "a" for
\* every open array and "o" for every open object.  A raw control character
\* (the line feed) inside a string literal is a syntax error.
Push(stack, x) == <<x>> \o stack

JsonStart == [ok |-> TRUE, mode |-> "value", stack |-> <<>>]

JsonReject == [ok |-> FALSE, mode |-> "end", stack |-> <<>>]

JsonGo(st, mode) == [st EXCEPT !.mode = mode]

JsonOpen(st, mode, x) == [st EXCEPT !.mode = mode, !.stack = Push(@, x)]

JsonClose(st) == [st EXCEPT !.mode = "end", !.stack = Tail(@)]

\* the scanner in state st reads the unit tok
JsonStep(st, tok) ==
    IF ~st.ok THEN st
    ELSE IF st.mode \in {"str", "keystr"}
    THEN IF tok = DQ THEN JsonGo(st, IF st.mode = "str" THEN "end" ELSE "colon")
         ELSE IF tok = NL THEN JsonReject
         ELSE st
    ELSE IF tok \in JsonSpace THEN st
    ELSE IF st.mode \in {"value", "arr0"}
    THEN IF tok = LB THEN JsonOpen(st, "arr0", "a")
         ELSE IF tok = "{" THEN JsonOpen(st, "obj0", "o")
         ELSE IF tok = DQ THEN JsonGo(st, "str")
         ELSE IF IsNumeral(tok) \/ tok \in JsonLiterals THEN JsonGo(st, "end")
         ELSE IF tok = RB /\ st.mode = "arr0" THEN JsonClose(st)
         ELSE JsonReject
    ELSE IF st.mode \in {"obj0", "key"}
    THEN IF tok = DQ THEN JsonGo(st, "keystr")
         ELSE IF tok = "}" /\ st.mode = "obj0" THEN JsonClose(st)
         ELSE JsonReject
    ELSE IF st.mode = "colon"
    THEN IF tok = ":" THEN JsonGo(st, "value") ELSE JsonReject
    ELSE \* mode = "end": after a value
         IF st.stack = <<>> THEN JsonReject
         ELSE IF Head(st.stack) = "a"
         THEN IF tok = "," THEN JsonGo(st, "value")
              ELSE IF tok = RB THEN JsonClose(st)
              ELSE JsonReject
         ELSE IF tok = "," THEN JsonGo(st, "key")
              ELSE IF tok = "}" THEN JsonClose(st)
              ELSE JsonReject

\* the scanner reads t[lo..hi] from state st: the left half, then the right
RECURSIVE JsonScan(_, _, _, _)
JsonScan(t, lo, hi, st) ==
    IF lo > hi \/ ~st.ok THEN st
    ELSE IF lo = hi THEN JsonStep(st, t[lo])
    ELSE LET mid == (lo + hi) \div 2
         IN  JsonScan(t, mid + 1, hi, JsonScan(t, lo, mid, st))

\* the text is one JSON value
JsonValid(t) ==
    LET st == JsonScan(t, 1, Len(t), JsonStart)
    IN  st.ok /\ st.mode = "end" /\ st.stack = <<>>

\* Decoding reads text that passed the syntax check.
\* t[p - 1] opens a string literal: the position of the quote that closes it
RECURSIVE StringEnd(_, _)
StringEnd(t, p) == IF t[p] = DQ THEN p ELSE StringEnd(t, p + 1)

RECURSIVE SkipWs(_, _)
SkipWs(t, p) ==
    IF p <= Len(t) /\ t[p] \in JsonSpace THEN SkipWs(t, p + 1) ELSE p

\* t[p] is inside an array or object opened before p, depth levels deep:
\* the position of the bracket or brace that closes the outermost of them.
RECURSIVE CloseEnd(_, _, _)
CloseEnd(t, p, depth) ==
    IF t[p] = DQ THEN CloseEnd(t, StringEnd(t, p + 1) + 1, depth)
    ELSE IF t[p] \in {LB, "{"} THEN CloseEnd(t, p + 1, depth + 1)
    ELSE IF t[p] \in {RB, "}"}
         THEN IF depth = 1 THEN p ELSE CloseEnd(t, p + 1, depth - 1)
    ELSE CloseEnd(t, p + 1, depth)

\* the position of the last unit of the value that starts at t[p]
ValueEnd(t, p) ==
    IF t[p] = DQ THEN StringEnd(t, p + 1)
    ELSE IF t[p] \in {LB, "{"} THEN CloseEnd(t, p + 1, 1)
    ELSE p

\* kind of the value that starts at t[p]
ValueKind(t, p) ==
    IF t[p] = DQ THEN "string"
    ELSE IF t[p] = LB THEN "array"
    ELSE IF t[p] = "{" THEN "object"
    ELSE IF IsNumeral(t[p]) THEN "number"
    ELSE t[p]

ZeroDecision ==
    [Symbol |-> <<>>, Action |-> <<>>, Leverage |-> 0, PositionSizeUSD |-> 0,
     StopLoss |-> 0, TakeProfit |-> 0, Confidence |-> 0, RiskUSD |-> 0,
     Reasoning |-> <<>>]

StringFields ==
    [symbol |-> "Symbol", action |-> "Action", reasoning |-> "Reasoning"]

IntFields == [leverage |-> "Leverage", confidence |-> "Confidence"]

FloatFields ==
    [position_size_usd |-> "PositionSizeUSD", stop_loss |-> "StopLoss",
     take_profit |-> "TakeProfit", risk_usd |-> "RiskUSD"]

\* The member with the given key, whose value starts at t[p], decoded into
\* the struct d: [ok, d].  A key that names no field is skipped; null leaves
\* the field as it is.
DecodeMember(d, key, t, p) ==
    LET name == IF Len(key) = 1 THEN key[1] ELSE ""
        kind == ValueKind(t, p)
    IN  IF kind = "null" THEN [ok |-> TRUE, d |-> d]
        ELSE IF name \in DOMAIN StringFields
        THEN IF kind = "string"
             THEN [ok |-> TRUE,
                   d |-> [d EXCEPT ![StringFields[name]] =
                                       SubSeq(t, p + 1, ValueEnd(t, p) - 1)]]
             ELSE [ok |-> FALSE, d |-> d]
        ELSE IF name \in DOMAIN IntFields
        THEN IF kind = "number" /\ NumeralIsInt(t[p])
             THEN [ok |-> TRUE, d |-> [d EXCEPT ![IntFields[name]] = NumeralInt(t[p])]]
             ELSE [ok |-> FALSE, d |-> d]
        ELSE IF name \in DOMAIN FloatFields
        THEN IF kind = "number"
             THEN [ok |-> TRUE, d |-> [d EXCEPT ![FloatFields[name]] = NumeralUnits(t[p])]]
             ELSE [ok |-> FALSE, d |-> d]
        ELSE [ok |-> TRUE, d |-> d]

\* the members of the object from t[p0] on (a key, a comma and a key, or the
\* closing brace), decoded in order into d: [ok, d, end], end the position of
\* the closing brace
RECURSIVE DecodeMembers(_, _, _)
DecodeMembers(d, t, p0) ==
    LET p1 == SkipWs(t, p0)
        p  == IF t[p1] = "," THEN SkipWs(t, p1 + 1) ELSE p1
    IN  IF t[p] = "}" THEN [ok |-> TRUE, d |-> d, end |-> p]
        ELSE LET kend == StringEnd(t, p + 1)
                 v    == SkipWs(t, SkipWs(t, kend + 1) + 1)
                 r    == DecodeMember(d, SubSeq(t, p + 1, kend - 1), t, v)
             IN  IF ~r.ok THEN [ok |-> FALSE, d |-> d, end |-> p]
                 ELSE DecodeMembers(r.d, t, ValueEnd(t, v) + 1)

\* the array element that starts at t[p] decoded into a TradingDecision:
\* [ok, d, end], end the position of the last unit of the element
DecodeDecision(t, p) ==
    IF ValueKind(t, p) = "object" THEN DecodeMembers(ZeroDecision, t, p + 1)
    ELSE IF ValueKind(t, p) = "null" THEN [ok |-> TRUE, d |-> ZeroDecision, end |-> p]
    ELSE [ok |-> FALSE, d |-> ZeroDecision, end |-> p]

\* the elements of the array from t[p0] on (an element, a comma and an
\* element, or the closing bracket)
RECURSIVE DecodeElements(_, _, _)
DecodeElements(t, p0, acc) ==
    LET p1 == SkipWs(t, p0)
        p  == IF t[p1] = "," THEN SkipWs(t, p1 + 1) ELSE p1
    IN  IF t[p] = RB THEN [ok |-> TRUE, decisions |-> acc]
        ELSE LET r == DecodeDecision(t, p)
             IN  IF ~r.ok THEN [ok |-> FALSE, decisions |-> <<>>]
                 ELSE DecodeElements(t, r.end + 1, Append(acc, r.d))

\* json.Unmarshal([]byte(jsonContent), &decisions): [ok, decisions]
JsonUnmarshal(jsonContent) ==
    IF ~JsonValid(jsonContent)
    THEN [ok |-> FALSE, decisions |-> <<>>]
    ELSE LET p == SkipWs(jsonContent, 1)
         IN  IF ValueKind(jsonContent, p) = "null"
             THEN [ok |-> TRUE, decisions |-> <<>>]
             ELSE IF ValueKind(jsonContent, p) # "array"
             THEN [ok |-> FALSE, decisions |-> <<>>]
             ELSE DecodeElements(jsonContent, p + 1, <<>>)

----------------------------------------------------------------------------
(* Errors and results *)

\* An error value: kind "nil" is Go's nil error.  cause is the innermost
\* message, index the decision number of "决策 #%d 验证失败", cot the reasoning
\* trace that parseFullDecisionResponse appends to its message, wrap the
\* prefix GetFullTradingDecision puts in front.
Error(kind, cause, index, cot, wrap) ==
    [kind |-> kind, cause |-> cause, index |-> index, cot |-> cot, wrap |-> wrap]

NoError == Error("nil", "", 0, <<>>, "")

\* *AIFullDecision; nil is the nil pointer
AIFullDecision(cotTrace, decisions, userPrompt) ==
    [nil |-> FALSE, CoTTrace |-> cotTrace, Decisions |-> decisions,
     UserPrompt |-> userPrompt]

NilDecision ==
    [nil |-> TRUE, CoTTrace |-> <<>>, Decisions |-> <<>>, UserPrompt |-> <<>>]

----------------------------------------------------------------------------
(* ResponseParser *)

extractCoTTrace(response) ==
    LET jsonStart == Index(response, LB)
    IN  IF jsonStart > 0
        THEN TrimSpace(Slice(response, 0, jsonStart))
        ELSE TrimSpace(response)

\* the state of the loop of findMatchingBracket: depth, and whether the loop
\* has returned (done) and the index it returned (at)
BracketStart == [done |-> FALSE, depth |-> 0, at |-> -1]

\* the body of the loop at index i (0-based)
BracketStep(s, i, st) ==
    IF st.done THEN st
    ELSE IF s[i + 1] = LB THEN [st EXCEPT !.depth = @ + 1]
    ELSE IF s[i + 1] = RB
         THEN IF st.depth - 1 = 0 THEN [done |-> TRUE, depth |-> 0, at |-> i]
              ELSE [st EXCEPT !.depth = @ - 1]
    ELSE st

\* the loop for lo <= i < hi from state st: the left half, then the right
RECURSIVE BracketScan(_, _, _, _)
BracketScan(s, lo, hi, st) ==
    IF lo >= hi \/ st.done THEN st
    ELSE IF hi = lo + 1 THEN BracketStep(s, lo, st)
    ELSE LET mid == (lo + hi) \div 2
         IN  BracketScan(s, mid, hi, BracketScan(s, lo, mid, st))

findMatchingBracket(s, start) ==
    IF start >= Len(s) \/ s[start + 1] # LB THEN -1
    ELSE BracketScan(s, start, Len(s), BracketStart).at

ReplaceAll(s, old, new) ==
    [i \in 1..Len(s) |-> IF s[i] = old THEN new ELSE s[i]]

fixMissingQuotes(jsonStr) ==
    ReplaceAll(ReplaceAll(ReplaceAll(ReplaceAll(jsonStr, LDQ, DQ), RDQ, DQ), LSQ, SQ), RSQ, SQ)

\* [decisions, err]; err is "nil" or names the failing step
extractDecisions(response) ==
    LET arrayStart == Index(response, LB)
    IN  IF arrayStart = -1
        THEN [decisions |-> <<>>, err |-> "no array start"]
        ELSE LET arrayEnd == findMatchingBracket(response, arrayStart)
             IN  IF arrayEnd = -1
                 THEN [decisions |-> <<>>, err |-> "no array end"]
                 ELSE LET jsonContent ==
                              fixMissingQuotes(
                                  TrimSpace(Slice(response, arrayStart, arrayEnd + 1)))
                          r == JsonUnmarshal(jsonContent)
                      IN  IF ~r.ok
                          THEN [decisions |-> <<>>, err |-> "json decode"]
                          ELSE [decisions |-> r.decisions, err |-> "nil"]

----------------------------------------------------------------------------
(* DecisionValidator *)

maxLeverageAlt == 20

maxLeverageMajor == 50

\* Mutant: "wait" is not a recognised action
validActionsNoWait ==
    {<<"open_long">>, <<"open_short">>, <<"close_long">>, <<"close_short">>,
     <<"hold">>}

validActions ==
    {<<"open_long">>, <<"open_short">>, <<"close_long">>, <<"close_short">>,
     <<"hold">>, <<"wait">>}

IsMajor(d) == d.Symbol = <<"BTCUSDT">> \/ d.Symbol = <<"ETHUSDT">>

\* Mutant: the BTC/ETH leverage cap for every symbol
maxLeverageOneCap(d) == maxLeverageMajor

maxLeverage(d) == IF IsMajor(d) THEN maxLeverageMajor ELSE maxLeverageAlt

\* accountEquity * 1.5, or accountEquity * 10 for BTCUSDT and ETHUSDT
maxPositionValue(d, accountEquity) ==
    IF IsMajor(d) THEN accountEquity * 10 ELSE (accountEquity * 15) \div 10

\* Mutant: 10% in place of 1%
toleranceTenPercent(d, accountEquity) == maxPositionValue(d, accountEquity) \div 10

\* maxPositionValue * 0.01
tolerance(d, accountEquity) == maxPositionValue(d, accountEquity) \div 100

\* Mutant: the stop-loss and take-profit comparisons are strict, so equal
\* prices pass
validateDecisionEqualStops(d, accountEquity) ==
    IF d.Action \notin validActions THEN "invalid action"
    ELSE IF d.Action = <<"open_long">> \/ d.Action = <<"open_short">>
    THEN IF d.Leverage <= 0 \/ d.Leverage > maxLeverage(d)
         THEN "leverage out of range"
         ELSE IF d.PositionSizeUSD <= 0 THEN "position size not positive"
         ELSE IF d.PositionSizeUSD >
                     maxPositionValue(d, accountEquity) + tolerance(d, accountEquity)
         THEN "position size above cap"
         ELSE IF d.StopLoss <= 0 \/ d.TakeProfit <= 0
         THEN "stop loss or take profit not positive"
         ELSE IF d.Action = <<"open_long">>
         THEN IF d.StopLoss > d.TakeProfit
              THEN "long stop loss not below take profit" ELSE "nil"
         ELSE IF d.StopLoss < d.TakeProfit
              THEN "short stop loss not above take profit" ELSE "nil"
    ELSE "nil"

\* the error of validateDecision, "nil" when the decision is valid
validateDecision(d, accountEquity) ==
    IF d.Action \notin validActions THEN "invalid action"
    ELSE IF d.Action = <<"open_long">> \/ d.Action = <<"open_short">>
    THEN IF d.Leverage <= 0 \/ d.Leverage > maxLeverage(d)
         THEN "leverage out of range"
         ELSE IF d.PositionSizeUSD <= 0 THEN "position size not positive"
         ELSE IF d.PositionSizeUSD >
                     maxPositionValue(d, accountEquity) + tolerance(d, accountEquity)
         THEN "position size above cap"
         ELSE IF d.StopLoss <= 0 \/ d.TakeProfit <= 0
         THEN "stop loss or take profit not positive"
         ELSE IF d.Action = <<"open_long">>
         THEN IF d.StopLoss >= d.TakeProfit
              THEN "long stop loss not below take profit" ELSE "nil"
         ELSE IF d.StopLoss <= d.TakeProfit
              THEN "short stop loss not above take profit" ELSE "nil"
    ELSE "nil"

\* the values that the message of the error of validateDecision is formatted
\* with (the arguments of its fmt.Errorf), <<>> when there are none
validateDecisionErrorArgs(d, accountEquity) ==
    LET e == validateDecision(d, accountEquity)
    IN  IF e = "invalid action" THEN <<d.Action>>
        ELSE IF e = "leverage out of range"
        THEN <<maxLeverage(d), d.Symbol, d.Leverage>>
        ELSE IF e = "position size not positive" THEN <<d.PositionSizeUSD>>
        ELSE IF e = "position size above cap"
        THEN <<maxPositionValue(d, accountEquity), d.PositionSizeUSD>>
        ELSE <<>>

\* the loop of validateDecisions from decision i (1-based): the error of the
\* first invalid decision, its number, how many decisions were examined, and
\* the values named in the message
RECURSIVE ValidateFrom(_, _, _)
ValidateFrom(decisions, i, accountEquity) ==
    IF i > Len(decisions)
    THEN [err |-> "nil", index |-> 0, examined |-> Len(decisions), args |-> <<>>]
    ELSE LET e == validateDecision(decisions[i], accountEquity)
         IN  IF e # "nil"
             THEN [err |-> e, index |-> i, examined |-> i,
                   args |-> validateDecisionErrorArgs(decisions[i], accountEquity)]
             ELSE ValidateFrom(decisions, i + 1, accountEquity)

\* Mutant: the loop returns after the first decision
validateDecisionsFirstOnly(decisions, accountEquity) ==
    ValidateFrom(IF decisions = <<>> THEN <<>> ELSE <<decisions[1]>>, 1, accountEquity)

\* Mutant: the loop does not stop; the last invalid decision is reported
validateDecisionsLastInvalid(decisions, accountEquity) ==
    LET bad == {i \in 1..Len(decisions) :
                    validateDecision(decisions[i], accountEquity) # "nil"}
        last == CHOOSE i \in bad : \A j \in bad : j <= i
    IN  IF bad = {}
        THEN [err |-> "nil", index |-> 0, examined |-> Len(decisions), args |-> <<>>]
        ELSE [err |-> validateDecision(decisions[last], accountEquity),
              index |-> last, examined |-> Len(decisions),
              args |-> validateDecisionErrorArgs(decisions[last], accountEquity)]

validateDecisions(decisions, accountEquity) ==
    ValidateFrom(decisions, 1, accountEquity)

----------------------------------------------------------------------------
(* parseFullDecisionResponse and GetFullTradingDecision *)

\* Mutant: nothing but the error is returned when no decision list is extracted
parseFullDecisionResponseNilOnExtractError(response, accountEquity) ==
    LET cotTrace == extractCoTTrace(response)
        x == extractDecisions(response)
    IN  IF x.err # "nil"
        THEN [decision |-> NilDecision,
              err |-> Error("extract", x.err, 0, cotTrace, "")]
        ELSE LET v == validateDecisions(x.decisions, accountEquity)
             IN  IF v.err # "nil"
                 THEN [decision |-> AIFullDecision(cotTrace, x.decisions, <<>>),
                       err |-> Error("validate", v.err, v.index, cotTrace, "")]
                 ELSE [decision |-> AIFullDecision(cotTrace, x.decisions, <<>>),
                       err |-> NoError]

\* [decision, err]
parseFullDecisionResponse(response, accountEquity) ==
    LET cotTrace == extractCoTTrace(response)
        x == extractDecisions(response)
    IN  IF x.err # "nil"
        THEN [decision |-> AIFullDecision(cotTrace, <<>>, <<>>),
              err |-> Error("extract", x.err, 0, cotTrace, "")]
        ELSE LET v == validateDecisions(x.decisions, accountEquity)
             IN  IF v.err # "nil"
                 THEN [decision |-> AIFullDecision(cotTrace, x.decisions, <<>>),
                       err |-> Error("validate", v.err, v.index, cotTrace, "")]
                 ELSE [decision |-> AIFullDecision(cotTrace, x.decisions, <<>>),
                       err |-> NoError]


\* callAIWithMessages(systemPrompt, userPrompt): the text of the completion,
\* or an error
AIOutcome(failed, text) ==
    IF failed THEN [text |-> <<>>, err |-> Error("ai", "call failed", 0, <<>>, "")]
    ELSE [text |-> text, err |-> NoError]

\* buildUserPrompt(ctx), as far as the parser and the validator need it
userPrompt(accountEquity) == <<"user", "prompt">>

----------------------------------------------------------------------------
(* Inputs *)

MaxBatch == 3

MaxTextLen == 2

MaxRawLen == 3

\* all sequences over S of length at most n
RECURSIVE SeqsUpTo(_, _)
SeqsUpTo(S, n) ==
    IF n = 0 THEN {<<>>}
    ELSE LET shorter == SeqsUpTo(S, n - 1)
         IN  shorter \cup {Append(q, x) : q \in shorter, x \in S}

Equities == {UsdUnits(100), UsdUnits(1000)}

\* What the AI means to say: numbers are numerals of whole USD, reasoning is
\* a text and quote the pair of marks the AI puts around the reasoning.
Intent(symbol, action, leverage, size, sl, tp, reasoning, quote) ==
    [symbol |-> symbol, action |-> action, leverage |-> leverage, size |-> size,
     sl |-> sl, tp |-> tp, reasoning |-> reasoning, quote |-> quote]

AsciiQuotes == <<DQ, DQ>>

SmartQuotes == <<LDQ, RDQ>>

SampleIntents ==
    { Intent("BTCUSDT", "open_long", 50, 5000, 1, 2, <<"breakout">>, AsciiQuotes),
      Intent("BTCUSDT", "open_long", 60, 1000, 1, 2, <<"breakout">>, AsciiQuotes),
      Intent("SOLUSDT", "open_short", 20, 100, 2, 1, <<"weak">>, AsciiQuotes),
      Intent("ETHUSDT", "close_long", 0, 0, 0, 0, <<"take", SP, "profit">>, AsciiQuotes),
      Intent("SOLUSDT", "bogus", 0, 0, 0, 0, <<"x">>, AsciiQuotes) }

TextAlphabet == {"x", SP, LB, RB, LSQ, RSQ, LDQ, RDQ, SQ}

Texts == SeqsUpTo(TextAlphabet, MaxTextLen)

QuotedIntents ==
    { Intent("SOLUSDT", "hold", 0, 0, 0, 0, t, q) :
          t \in Texts, q \in {AsciiQuotes, SmartQuotes} }

Str(w) == <<DQ, w, DQ>>

Member(key, value) == Str(key) \o <<":">> \o value

\* one decision in the output format of the system prompt; the numeric
\* fields are given for the open actions only
RenderDecision(x) ==
    <<"{">> \o Member("symbol", Str(x.symbol)) \o <<",">>
    \o Member("action", Str(x.action)) \o <<",">>
    \o (IF x.action \in {"open_long", "open_short"}
        THEN Member("leverage", <<ToString(x.leverage)>>) \o <<",">>
             \o Member("position_size_usd", <<ToString(x.size)>>) \o <<",">>
             \o Member("stop_loss", <<ToString(x.sl)>>) \o <<",">>
             \o Member("take_profit", <<ToString(x.tp)>>) \o <<",">>
        ELSE <<>>)
    \o Member("reasoning", <<x.quote[1]>> \o x.reasoning \o <<x.quote[2]>>)
    \o <<"}">>

RECURSIVE RenderItems(_, _)
RenderItems(batch, i) ==
    IF i > Len(batch) THEN <<>>
    ELSE RenderDecision(batch[i])
         \o (IF i < Len(batch) THEN <<",", SP>> ELSE <<>>)
         \o RenderItems(batch, i + 1)

\* reasoning text, then the JSON array
RenderResponse(prefix, batch) == prefix \o <<LB>> \o RenderItems(batch, 1) \o <<RB>>

Prefixes == {<<>>, <<"Some", SP, "reasoning.", NL>>}

SampleBatches == SeqsUpTo(SampleIntents, MaxBatch)

QuotedBatches == {<<x>> : x \in QuotedIntents}

RawAlphabet == {LB, RB, DQ, "x", SP, "{", "}"}

RawResponses == SeqsUpTo(RawAlphabet, MaxRawLen)

Responses ==
    {RenderResponse(p, b) : p \in Prefixes, b \in SampleBatches \cup QuotedBatches}
    \cup RawResponses

----------------------------------------------------------------------------
(* MarketContextAssembler: fetchMarketDataForContext *)

\* A market snapshot (*MarketData) as far as the liquidity filter reads it:
\* OpenInterest is NilOI (the nil pointer) or a record with the latest open
\* interest in contracts; CurrentPrice is in whole USD.
NilOI == [nil |-> TRUE, Latest |-> 0]

OIData(latest) == [nil |-> FALSE, Latest |-> latest]

MarketData(symbol, oi, price) ==
    [Symbol |-> symbol, OpenInterest |-> oi, CurrentPrice |-> price]

\* GetMarketData(symbol): [err, data]
FetchFailed == [err |-> "fetch failed", data |-> MarketData("", NilOI, 0)]

Fetched(data) == [err |-> "nil", data |-> data]

\* the empty map
EmptyMap == [k \in {} |-> 0]

\* the symbols of a list of positions or of candidate coins
SymbolsOf(list) == {list[i].Symbol : i \in 1..Len(list)}

calculateMaxCandidates(c) == Len(c.CandidateCoins)

\* the symbols whose data is fetched: those of the positions and of the
\* first maxCandidates candidate coins
symbolSet(c) ==
    SymbolsOf(c.Positions)
    \cup {c.CandidateCoins[i].Symbol :
              i \in {j \in 1..Len(c.CandidateCoins) : j - 1 < calculateMaxCandidates(c)}}

positionSymbols(c) == SymbolsOf(c.Positions)

\* oiValueInMillions < 15, oiValue = Latest * CurrentPrice
oiValueTooLow(data) == data.OpenInterest.Latest * data.CurrentPrice < 15 * 1000000

\* the body of the loop over symbolSet: the symbol is put into MarketDataMap
keepsSymbol(c, src, symbol) ==
    /\ src[symbol].err = "nil"
    /\ ~(/\ symbol \notin positionSymbols(c)
         /\ ~src[symbol].data.OpenInterest.nil
         /\ src[symbol].data.CurrentPrice > 0
         /\ oiValueTooLow(src[symbol].data))

\* the OITopData made from one record of pool.GetOITopPositions
OITopData(pos) == [Rank |-> pos.Rank, OIDeltaPercent |-> pos.OIDeltaPercent]

\* the last record of the list that has the symbol (later records overwrite)
LastWith(list, symbol) ==
    list[MaxOf({i \in 1..Len(list) : list[i].Symbol = symbol})]

\* Mutant: a failed fetch of a symbol aborts the call with an error
fetchMarketDataForContextAbortOnFailure(c, src, top) ==
    LET kept == {symbol \in symbolSet(c) : keepsSymbol(c, src, symbol)}
        failed == {symbol \in symbolSet(c) : src[symbol].err # "nil"}
    IN  [ctx |-> [c EXCEPT
                     !.MarketDataMap = [symbol \in kept |-> src[symbol].data],
                     !.OITopDataMap = EmptyMap],
         err |-> IF failed # {} THEN "fetch failed" ELSE "nil"]

\* the context after the call, and the error returned: [ctx, err]
fetchMarketDataForContext(c, src, top) ==
    LET kept == {symbol \in symbolSet(c) : keepsSymbol(c, src, symbol)}
    IN  [ctx |-> [c EXCEPT
                     !.MarketDataMap = [symbol \in kept |-> src[symbol].data],
                     !.OITopDataMap =
                         IF top.err = "nil"
                         THEN [symbol \in SymbolsOf(top.positions) |->
                                   OITopData(LastWith(top.positions, symbol))]
                         ELSE EmptyMap],
         err |-> "nil"]

MaxPositions == 2

MaxCandidates == 2

FetchSymbols == {"SOLUSDT", "DOGEUSDT"}

PositionInfo(symbol) == [Symbol |-> symbol]

CandidateCoin(symbol) == [Symbol |-> symbol]

\* snapshots: no open-interest record; open interest of 3,000,000 contracts
\* at a price of -1, 0, 4 (12M USD), 5 (15M USD) and 6 USD; no open interest
InSnapshots(symbol) ==
    {MarketData(symbol, NilOI, 5), MarketData(symbol, OIData(0), 5)}
    \cup {MarketData(symbol, OIData(3000000), price) : price \in {-1, 0, 4, 5, 6}}

InSources ==
    {src \in [FetchSymbols -> {FetchFailed} \cup
                                UNION {{Fetched(d) : d \in InSnapshots(y)} :
                                           y \in FetchSymbols}] :
         \A y \in FetchSymbols : src[y].err = "nil" => src[y].data.Symbol = y}

OITopPosition(symbol, rank, delta) ==
    [Symbol |-> symbol, Rank |-> rank, OIDeltaPercent |-> delta]

InOITops ==
    { [err |-> "oi top failed", positions |-> <<>>],
      [err |-> "nil", positions |-> <<>>],
      [err |-> "nil",
       positions |-> <<OITopPosition("SOLUSDT", 1, 12), OITopPosition("PEPEUSDT", 2, 7),
                       OITopPosition("SOLUSDT", 3, 5)>>] }

\* a context before the call: the maps are nil
TradingContext(positions, candidates) ==
    [Positions |-> positions, CandidateCoins |-> candidates,
     MarketDataMap |-> EmptyMap, OITopDataMap |-> EmptyMap]

InContexts ==
    { TradingContext(ps, cs) :
          ps \in SeqsUpTo({PositionInfo(y) : y \in FetchSymbols}, MaxPositions),
          cs \in SeqsUpTo({CandidateCoin(y) : y \in FetchSymbols}, MaxCandidates) }

NoSource == [y \in FetchSymbols |-> FetchFailed]

FetchIdle ==
    /\ ctx = TradingContext(<<>>, <<>>)
    /\ source = NoSource
    /\ oiTop = [err |-> "nil", positions |-> <<>>]
    /\ fetchRet = "pending"

----------------------------------------------------------------------------
(* AIGateway: callDeepSeekAPI, callDeepSeekAPIOnce, isRetryableError *)

\* Error messages are texts: sequences of units, a unit being a word or one
\* of the phrases isRetryableError looks for.  NoMessage is the nil error.
NoMessage == <<>>

\* What the endpoint does with one request.  class names the event; sendErr
\* is the message of the error of client.Do and readErr the one of io.ReadAll
\* (NoMessage when they succeed); status and body are the response; decodes
\* tells whether the body is JSON of the expected shape, jsonErr is the
\* message of json.Unmarshal when it is not, and choices are the contents of
\* result.Choices.
Endpoint(class, sendErr, readErr, status, body, decodes, jsonErr, choices) ==
    [class |-> class, sendErr |-> sendErr, readErr |-> readErr, status |-> status,
     body |-> body, decodes |-> decodes, jsonErr |-> jsonErr, choices |-> choices]

\* (string, error) of callDeepSeekAPIOnce: [result, err]
callDeepSeekAPIOnce(ep) ==
    IF ep.sendErr # NoMessage
    THEN [result |-> <<>>, err |-> <<"send request failed:">> \o ep.sendErr]
    ELSE IF ep.readErr # NoMessage
    THEN [result |-> <<>>, err |-> <<"read response failed:">> \o ep.readErr]
    ELSE IF ep.status # 200
    THEN [result |-> <<>>,
          err |-> <<"API returned error", "(status", ToString(ep.status), "):">>
                  \o ep.body]
    ELSE IF ~ep.decodes
    THEN [result |-> <<>>, err |-> <<"parse response failed:">> \o ep.jsonErr]
    ELSE IF Len(ep.choices) = 0
    THEN [result |-> <<>>, err |-> <<"API returned empty response">>]
    ELSE [result |-> ep.choices[1], err |-> NoMessage]

retryableErrors ==
    {"EOF", "timeout", "connection reset", "connection refused",
     "temporary failure", "no such host"}

\* strings.Contains(errStr, retryable) for some retryable
isRetryableError(e) == \E i \in 1..Len(e) : e[i] \in retryableErrors

maxRetries == 3

\* the package variable defaultConfig as declared
DefaultAIConfig ==
    [Provider |-> "deepseek", APIKey |-> "", SecretKey |-> "",
     BaseURL |-> "https://api.deepseek.com/v1", Model |-> "deepseek-chat",
     Timeout |-> 120]

\* The configuration functions, each as the list of the stores it makes to
\* the fields of defaultConfig, in program order.
SetDeepSeekAPIKey(apiKey) ==
    << <<"Provider", "deepseek">>, <<"APIKey", apiKey>>,
       <<"BaseURL", "https://api.deepseek.com/v1">>,
       <<"Model", "deepseek-chat">> >>

SetQwenAPIKey(apiKey, secretKey) ==
    << <<"Provider", "qwen">>, <<"APIKey", apiKey>>, <<"SecretKey", secretKey>>,
       <<"BaseURL", "https://dashscope.aliyuncs.com/compatible-mode/v1">>,
       <<"Model", "qwen-plus">> >>

\* defaultConfig = config, a copy of the struct field by field
SetAIConfig(config) ==
    LET timeout == IF config.Timeout = 0 THEN 30 ELSE config.Timeout
    IN  << <<"Provider", config.Provider>>, <<"APIKey", config.APIKey>>,
           <<"SecretKey", config.SecretKey>>, <<"BaseURL", config.BaseURL>>,
           <<"Model", config.Model>>, <<"Timeout", timeout>> >>

\* one store, and all the stores of a list, applied to a configuration
Store(config, write) == [config EXCEPT ![write[1]] = write[2]]

RECURSIVE StoreAll(_, _)
StoreAll(config, writes) ==
    IF writes = <<>> THEN config
    ELSE StoreAll(Store(config, Head(writes)), Tail(writes))

GatewayIdle ==
    /\ defaultConfig = DefaultAIConfig
    /\ gwPc = "idle"
    /\ attempt = 0
    /\ lastErr = NoMessage
    /\ gwLog = <<>>
    /\ gwWaits = <<>>
    /\ gwRet = [result |-> <<>>, err |-> NoMessage]

----------------------------------------------------------------------------
(* AdaptiveFeedbackEngine: getAdaptiveBehaviorRecommendation *)

\* A Sharpe ratio (float64 in the source) is an integer counting 1/100, so
\* that the thresholds -0.5, 0, 0.7 and 1.0 are -50, 0, 70 and 100.
\* A text built with strings.Builder is the sequence of its lines, a line the
\* sequence of its units; prose is given in English.

\* fmt.Sprintf("%.0f", x) of an amount: the nearest whole number of USD, a
\* half going to the even one; the numeral is given as the number it shows
FormatUsd0(amount) ==
    LET whole == amount \div 1000
        rest  == amount % 1000
    IN  IF rest > 500 \/ (rest = 500 /\ whole % 2 = 1) THEN whole + 1 ELSE whole

\* accountEquity * m for the multiplier m = tenths / 10
Times(accountEquity, tenths) == (accountEquity * tenths) \div 10

\* the line "- position size: **label** (altcoin: %.0f USDT, BTC/ETH: %.0f USDT)"
SizeLine(label, accountEquity, altTenths, majorTenths) ==
    <<"- position size:", label, "altcoin:",
      FormatUsd0(Times(accountEquity, altTenths)), "USDT", "BTC/ETH:",
      FormatUsd0(Times(accountEquity, majorTenths)), "USDT">>

RecommendationHeader == <<"### adaptive behaviour recommendation (by Sharpe ratio)">>

Blank == <<>>

\* the if / else-if chain with the first test written sharpe <= -0.5
SharpeBandClosed(sharpe) ==
    IF sharpe <= -50 THEN 1
    ELSE IF sharpe < 0 THEN 2
    ELSE IF sharpe < 70 THEN 3
    ELSE IF sharpe < 100 THEN 4
    ELSE 5

\* the if / else-if chain with the texts of its first two branches exchanged
SharpeBandSwapped(sharpe) ==
    IF sharpe < -50 THEN 2
    ELSE IF sharpe < 0 THEN 1
    ELSE IF sharpe < 70 THEN 3
    ELSE IF sharpe < 100 THEN 4
    ELSE 5

\* the branch the if / else-if chain takes, counted from the first
SharpeBand(sharpe) ==
    IF sharpe < -50 THEN 1
    ELSE IF sharpe < 0 THEN 2
    ELSE IF sharpe < 70 THEN 3
    ELSE IF sharpe < 100 THEN 4
    ELSE 5

getAdaptiveBehaviorRecommendation(sharpe, accountEquity) ==
    LET band == SharpeBand(sharpe) IN
    <<RecommendationHeader, Blank>> \o
    (IF band = 1
     THEN << <<"**warning: the strategy yields negative returns, adjust at once**">>,
             Blank,
             <<"**strategy adjustment**:">>,
             SizeLine("**halved**", accountEquity, 6, 25),
             <<"- stop-loss:", "**tighten to", "-1%", "** (stop fast, protect the capital)">>,
             <<"- selection:", "**highest certainty only**", "confidence>=", "95%",
               "reward:risk>=", "1:3">>,
             <<"- positions:", "**max", "1", "** (most selective)">>,
             <<"- frequency:", "**trade less**">>,
             Blank,
             <<"**points to reflect on**:">>,
             <<"- why did the earlier trades lose?">>,
             <<"- chasing the market or trading against the trend?">>,
             <<"- were the stops executed?">>,
             Blank >>
     ELSE IF band = 2
     THEN << <<"**state: slight loss, the strategy needs tuning**">>,
             Blank,
             <<"**strategy adjustment**:">>,
             SizeLine("**conservative**", accountEquity, 8, 35),
             <<"- stop-loss:", "**tighten to", "-1.5%", "**">>,
             <<"- selection:", "**raise the bar**", "confidence>=", "80%",
               "reward:risk>=", "1:2.5">>,
             <<"- positions:", "**max", "2", "**">>,
             <<"- improve:", "**find the cause of the losses**">>,
             Blank >>
     ELSE IF band = 3
     THEN << <<"**state: positive return at high risk, needs tuning**">>,
             Blank,
             <<"**strategy adjustment**:">>,
             SizeLine("**conservative**", accountEquity, 8, 35),
             <<"- stop-loss:", "**tighten to", "-1.5%", "**">>,
             <<"- selection:", "**raise the bar**", "confidence>=", "80%",
               "reward:risk>=", "1:2.5">>,
             <<"- positions:", "**max", "2", "**">>,
             <<"- improve:", "**reduce the size of the losses**">>,
             Blank,
             <<"**directions**:">>,
             <<"- avoid impulsive trades">>,
             <<"- trade less often">>,
             <<"- take profit in time">>,
             Blank >>
     ELSE IF band = 4
     THEN << <<"**state: good performance, keep the current strategy**">>,
             Blank,
             <<"**strategy adjustment**:">>,
             SizeLine("**standard**", accountEquity, 12, 50),
             <<"- stop-loss:", "**", "-2%", "** (standard setting)">>,
             <<"- selection:", "**normal**", "confidence>=", "75%",
               "reward:risk>=", "1:2">>,
             <<"- positions:", "**max", "3", "**">>,
             <<"- discipline:", "**execute stops and targets strictly**">>,
             Blank,
             <<"**keep improving**:">>,
             <<"- repeat what the winning trades share">>,
             <<"- analyse the losing trades">>,
             <<"- stay calm after short-term gains">>,
             Blank >>
     ELSE << <<"**state: outstanding performance, the strategy works**">>,
             Blank,
             <<"**strategy adjustment**:">>,
             SizeLine("**may be enlarged moderately**", accountEquity, 15, 60),
             <<"- stop-loss:", "**", "-2%", "** (keep discipline)">>,
             <<"- selection:", "**normal**", "confidence>=", "75%">>,
             <<"- positions:", "**max", "3", "**">>,
             <<"- **principle: keep discipline, no overconfidence**">>,
             Blank,
             <<"**risk notes**:">>,
             <<"- keep the risk management discipline">>,
             <<"- markets change">>,
             <<"- keep executing the stops">>,
             Blank >>)

MaxSharpe == 120

\* Sharpe ratios from -MaxSharpe/100 to MaxSharpe/100
InSharpes == (0 - MaxSharpe)..MaxSharpe

\* account equities: 100, 333 and 1000 USD
InAdaptiveEquities == Equities \cup {UsdUnits(333)}

AdaptiveIdle ==
    /\ aSharpe = 0
    /\ aEquity = 0
    /\ aText = <<>>

----------------------------------------------------------------------------
(* PromptBuilder: buildUserPrompt *)

\* fmt.Sprintf("%.2f", x) of a number x counted in 1/100
FormatFixed2(hundredths) ==
    LET mag   == IF hundredths < 0 THEN 0 - hundredths ELSE hundredths
        cents == mag % 100
    IN  (IF hundredths < 0 THEN "-" ELSE "") \o ToString(mag \div 100) \o "."
        \o (IF cents < 10 THEN "0" ELSE "") \o ToString(cents)

\* strings.ToUpper of a position side
ToUpper(side) ==
    CASE side = "long" -> "LONG"
      [] side = "short" -> "SHORT"
      [] OTHER -> side

\* FormatMarketData(data) is defined outside this file: its text is one line
\* naming the symbol
FormatMarketData(data) == << <<"market data of", data.Symbol>> >>

\* ctx.Performance, an interface{}: nil, a logger.PerformanceAnalysis with a
\* finite Sharpe ratio, or one whose Sharpe ratio is NaN (json.Marshal then
\* returns an error)
NilPerformance == [kind |-> "nil", SharpeRatio |-> 0]
PerformanceAnalysis(sharpe) == [kind |-> "analysis", SharpeRatio |-> sharpe]
PerformanceNaN == [kind |-> "nan", SharpeRatio |-> 0]

\* json.Marshal(ctx.Performance) followed by json.Unmarshal into
\* PerformanceData: [err, SharpeRatio]
PerformanceData(performance) ==
    IF performance.kind = "nan"
    THEN [err |-> "json: unsupported value: NaN", SharpeRatio |-> 0]
    ELSE [err |-> "nil", SharpeRatio |-> performance.SharpeRatio]

\* the concatenation of the texts of a list
RECURSIVE Concat(_)
Concat(texts) ==
    IF texts = <<>> THEN <<>> ELSE Head(texts) \o Concat(Tail(texts))

\* the lines of position i of the list
PositionLines(c, i) ==
    LET pos == c.Positions[i] IN
    << <<ToString(i) \o ".", pos.Symbol, ToUpper(pos.Side), "entry",
         pos.EntryPrice, "mark",
         pos.MarkPrice, "pnl%", pos.UnrealizedPnLPct, "leverage", pos.Leverage,
         "margin", pos.MarginUsed, "liquidation", pos.LiquidationPrice>>,
       Blank >>
    \o (IF pos.Symbol \in DOMAIN c.MarketDataMap
        THEN FormatMarketData(c.MarketDataMap[pos.Symbol]) \o <<Blank>>
        ELSE <<>>)

sourceTags(coin) ==
    IF Len(coin.Sources) > 1 THEN " (AI500+OI_Top double signal)"
    ELSE IF Len(coin.Sources) = 1 /\ coin.Sources[1] = "oi_top"
    THEN " (OI_Top open-interest growth)"
    ELSE ""

\* the lines of candidate i of the list, none when it has no market data
CandidateLines(c, i) ==
    LET coin == c.CandidateCoins[i]
        displayedCount ==
            Cardinality({j \in 1..i :
                             c.CandidateCoins[j].Symbol \in DOMAIN c.MarketDataMap})
    IN  IF coin.Symbol \notin DOMAIN c.MarketDataMap THEN <<>>
        ELSE << <<"###", displayedCount, coin.Symbol, sourceTags(coin)>>, Blank >>
             \o FormatMarketData(c.MarketDataMap[coin.Symbol]) \o <<Blank>>

SharpeHeading == "## Sharpe ratio:"

BTCHeading == "**BTC**:"

\* the BTC trend section of buildFullDecisionPrompt, the single-prompt
\* builder of the earlier revision of the engine kept in the same file
btcTrendSection(c) ==
    << <<"## BTC market trend">> >>
    \o (IF "BTCUSDT" \in DOMAIN c.MarketDataMap
        THEN << <<"- price:", c.MarketDataMap["BTCUSDT"].CurrentPrice>>, Blank >>
        ELSE << <<"BTC data unavailable">>, Blank >>)

buildUserPrompt(c) ==
    << <<"**time**:", c.CurrentTime, "**cycle**:", c.CallCount,
         "**runtime**:", c.RuntimeMinutes, "minutes">>, Blank >>
    \o (IF "BTCUSDT" \in DOMAIN c.MarketDataMap
        THEN << <<BTCHeading, c.MarketDataMap["BTCUSDT"].CurrentPrice>>, Blank >>
        ELSE <<>>)
    \o << <<"**account**:", "equity", c.Account.TotalEquity, "balance",
            c.Account.AvailableBalance, "pnl%", c.Account.TotalPnLPct,
            "margin%", c.Account.MarginUsedPct, "positions",
            c.Account.PositionCount>>, Blank >>
    \o (IF Len(c.Positions) > 0
        THEN << <<"## current positions">> >>
             \o Concat([i \in 1..Len(c.Positions) |-> PositionLines(c, i)])
        ELSE << <<"**current positions**: none">>, Blank >>)
    \o << <<"## candidate coins", Cardinality(DOMAIN c.MarketDataMap)>>, Blank >>
    \o Concat([i \in 1..Len(c.CandidateCoins) |-> CandidateLines(c, i)])
    \o <<Blank>>
    \o (IF c.Performance # NilPerformance
           /\ PerformanceData(c.Performance).err = "nil"
        THEN << <<SharpeHeading,
                  FormatFixed2(PerformanceData(c.Performance).SharpeRatio)>>,
                Blank >>
        ELSE <<>>)
    \o << <<"---">>, Blank,
          <<"now analyse and output the decisions (chain of thought + JSON)">> >>

\* positions, candidates and snapshots of the contexts handed to the builder
HeldPosition(symbol) ==
    [Symbol |-> symbol, Side |-> "long", EntryPrice |-> 4, MarkPrice |-> 5,
     UnrealizedPnLPct |-> 25, Leverage |-> 5, MarginUsed |-> 20,
     LiquidationPrice |-> 3]

SourcedCoin(symbol, sources) == [Symbol |-> symbol, Sources |-> sources]

AccountInfo(totalEquity, positionCount) ==
    [TotalEquity |-> totalEquity, AvailableBalance |-> totalEquity \div 2,
     TotalPnLPct |-> 0, MarginUsedPct |-> 50, PositionCount |-> positionCount]

PromptSymbols == {"BTCUSDT", "SOLUSDT"}

MapOf(symbols) == [y \in symbols |-> MarketData(y, OIData(3000000), 6)]

PromptContext(totalEquity, positions, candidates, symbols, performance) ==
    [CurrentTime |-> "2025-01-01 00:00:00", CallCount |-> 1,
     RuntimeMinutes |-> 3, Account |-> AccountInfo(totalEquity, Len(positions)),
     Positions |-> positions, CandidateCoins |-> candidates,
     MarketDataMap |-> MapOf(symbols), Performance |-> performance]

\* Sharpe ratios of the performance data: each band and each threshold
InPromptSharpes == {-80, -50, -20, 0, 35, 70, 85, 100, 120}

InPerformances ==
    {NilPerformance, PerformanceNaN}
    \cup {PerformanceAnalysis(sh) : sh \in InPromptSharpes}

InPromptContexts ==
    { PromptContext(eq, ps, cs, ys, perf) :
          eq \in InAdaptiveEquities,
          ps \in {<<>>, <<HeldPosition("SOLUSDT")>>},
          cs \in {<<>>, <<SourcedCoin("SOLUSDT", <<"ai500">>)>>,
                  <<SourcedCoin("BTCUSDT", <<"ai500", "oi_top">>),
                    SourcedCoin("SOLUSDT", <<"oi_top">>)>>},
          ys \in SUBSET PromptSymbols,
          perf \in InPerformances }

PromptIdle ==
    /\ pCtx = PromptContext(0, <<>>, <<>>, {}, NilPerformance)
    /\ prompt = <<>>

----------------------------------------------------------------------------
(* Trader lifecycle: handleStartTrader, handleStopTrader, StartAll *)

\* the two start requests of the API and the StartAll of the manager, for
\* one trader; each names the goroutine it launches
StartHandlers == {"start1", "start2"}
Starters == StartHandlers \cup {"startAll"}

LifecycleIdle ==
    /\ isRunning = FALSE
    /\ runs = [g \in Starters |-> "none"]
    /\ reqPc = [g \in Starters |-> "idle"]
    /\ dbIsRunning = FALSE

----------------------------------------------------------------------------
(* Trading instances configuring and using the AI gateway *)

Instances == {"A", "B"}

Setters == {"SetDeepSeekAPIKey", "SetQwenAPIKey", "SetAIConfig"}

\* the stores instance i makes when it configures its provider
ConfigWrites(i, setter) ==
    CASE setter = "SetDeepSeekAPIKey" -> SetDeepSeekAPIKey("sk-" \o i)
      [] setter = "SetQwenAPIKey" -> SetQwenAPIKey("sk-" \o i, "secret-" \o i)
      [] setter = "SetAIConfig" ->
             SetAIConfig([Provider |-> "deepseek", APIKey |-> "sk-" \o i,
                          SecretKey |-> "", BaseURL |-> "https://proxy-" \o i,
                          Model |-> "model-" \o i, Timeout |-> 0])

\* the loads of defaultConfig one AI call makes, in program order: the key
\* test of callDeepSeekAPI, then the fields callDeepSeekAPIOnce puts into
\* the request
CallReads == <<"APIKey", "Model", "BaseURL", "Provider", "APIKey">>

NoRequest == [sent |-> FALSE, Provider |-> "", APIKey |-> "", BaseURL |-> "", Model |-> ""]

ConfigIdle ==
    /\ setterOf = [i \in Instances |-> "SetDeepSeekAPIKey"]
    /\ instPc = [i \in Instances |-> [phase |-> "configure", step |-> 0]]
    /\ request = [i \in Instances |-> NoRequest]

----------------------------------------------------------------------------
(* MarketScanner: ScanMarket *)

\* the fields of ScanConfig; MinConfidence and MinRiskRewardRatio count 1/10
ScanConfig(minConfidence, maxConcurrent, minPriority, long, short, minRatio) ==
    [MinConfidence |-> minConfidence, MaxConcurrent |-> maxConcurrent,
     MinPriority |-> minPriority, EnableLong |-> long,
     EnableShort |-> short, MinRiskRewardRatio |-> minRatio]

\* defaultScanConfig as declared
DefaultScanConfig == ScanConfig(650, 10, 60, TRUE, TRUE, 15)

\* what scanSymbol yields for one symbol: an error, nil (filtered out) or an
\* opportunity of some priority
ScanError(symbol) == [Symbol |-> symbol, kind |-> "error", Priority |-> 0]
ScanNone(symbol) == [Symbol |-> symbol, kind |-> "none", Priority |-> 0]
ScanFound(symbol, priority) ==
    [Symbol |-> symbol, kind |-> "opp", Priority |-> priority]

TradingOpportunity(scan) == [Symbol |-> scan.Symbol, Priority |-> scan.Priority]

\* the bijections of 1..n
Perms(n) == {f \in [1..n -> 1..n] : \A i, j \in 1..n : f[i] = f[j] => i = j}

\* the results sort.Slice may leave for the comparison
\* opportunities[i].Priority > opportunities[j].Priority: the rearrangements
\* of the slice in which no element precedes one of higher priority
SortedByPriority(list) ==
    { [i \in 1..Len(list) |-> list[f[i]]] : f \in
          { g \in Perms(Len(list)) :
                \A i, j \in 1..Len(list) :
                    i < j => list[g[i]].Priority >= list[g[j]].Priority } }

\* no call of ScanMarket has been made
ScanCallIdle ==
    /\ scanInput = <<>>
    /\ scanPc = "idle"
    /\ workerPc = <<>>
    /\ semaphore = 0
    /\ oppChan = <<>>
    /\ errChan = <<>>
    /\ chansClosed = FALSE
    /\ collector = [oppChan |-> "open", errChan |-> "open"]
    /\ opportunities = <<>>
    /\ errorCount = 0
    /\ scanRet = [opportunities |-> <<>>, err |-> "pending"]

ScanIdle ==
    /\ defaultScanConfig = DefaultScanConfig
    /\ ScanCallIdle

----------------------------------------------------------------------------
(* MarketScanner: scanSymbol, isValidTradingSignal, calculateRiskReward, *)
(* calculatePriorityScore                                                *)

\* Confidence, MinConfidence and MinRiskRewardRatio count 1/10, FundingRate
\* counts 1/10000; prices, RSI, MACD and volumes are whole numbers.

SignalOpenLong == "OPEN_LONG"
SignalOpenShort == "OPEN_SHORT"
SignalCloseLong == "CLOSE_LONG"
SignalCloseShort == "CLOSE_SHORT"
SignalHold == "HOLD"
SignalWait == "WAIT"

TradingSignal(signal, confidence, entryPrice, stopLoss, takeProfit) ==
    [Signal |-> signal, Confidence |-> confidence, EntryPrice |-> entryPrice,
     StopLoss |-> stopLoss, TakeProfit |-> takeProfit]

NilContext == [nil |-> TRUE, CurrentVolume |-> 0, AverageVolume |-> 0]

LongerTermContext(currentVolume, averageVolume) ==
    [nil |-> FALSE, CurrentVolume |-> currentVolume, AverageVolume |-> averageVolume]

\* the fields of market.MarketData that the scanner reads
Snapshot(price, rsi7, macd, ema20, fundingRate, longerTerm) ==
    [CurrentPrice |-> price, CurrentRSI7 |-> rsi7, CurrentMACD |-> macd,
     CurrentEMA20 |-> ema20, FundingRate |-> fundingRate,
     LongerTermContext |-> longerTerm]

\* isValidTradingSignal with the price test of step 3 left out
isValidTradingSignalNoPriceTest(config, signal) ==
    IF signal.Confidence < config.MinConfidence THEN FALSE
    ELSE IF signal.Signal = SignalOpenLong
    THEN /\ config.EnableLong
         /\ ~(signal.StopLoss >= signal.EntryPrice \/ signal.TakeProfit <= signal.EntryPrice)
    ELSE IF signal.Signal = SignalOpenShort
    THEN /\ config.EnableShort
         /\ ~(signal.TakeProfit >= signal.EntryPrice \/ signal.StopLoss <= signal.EntryPrice)
    ELSE FALSE

isValidTradingSignal(config, signal) ==
    IF signal.Confidence < config.MinConfidence THEN FALSE
    ELSE IF signal.Signal = SignalOpenLong
            /\ (~config.EnableLong
                \/ signal.StopLoss >= signal.EntryPrice
                \/ signal.TakeProfit <= signal.EntryPrice)
    THEN FALSE
    ELSE IF signal.Signal = SignalOpenShort
            /\ (~config.EnableShort
                \/ signal.TakeProfit >= signal.EntryPrice
                \/ signal.StopLoss <= signal.EntryPrice)
    THEN FALSE
    ELSE IF signal.Signal \notin {SignalOpenLong, SignalOpenShort} THEN FALSE
    ELSE IF signal.EntryPrice <= 0 \/ signal.StopLoss <= 0 \/ signal.TakeProfit <= 0
    THEN FALSE
    ELSE TRUE

\* calculateRiskReward: the quotient reward / risk as the pair of its terms,
\* and 0 (reward 0, risk 1) when risk is not positive
calculateRiskReward(signal) ==
    LET risk   == IF signal.Signal = SignalOpenLong
                  THEN signal.EntryPrice - signal.StopLoss
                  ELSE IF signal.Signal = SignalOpenShort
                  THEN signal.StopLoss - signal.EntryPrice
                  ELSE 0
        reward == IF signal.Signal = SignalOpenLong
                  THEN signal.TakeProfit - signal.EntryPrice
                  ELSE IF signal.Signal = SignalOpenShort
                  THEN signal.EntryPrice - signal.TakeProfit
                  ELSE 0
    IN  IF risk > 0 THEN [reward |-> reward, risk |-> risk]
        ELSE [reward |-> 0, risk |-> 1]

\* rrr >= tenths / 10 and rrr < tenths / 10, for rrr.risk > 0
RatioAtLeast(rrr, tenths) == rrr.reward * 10 >= tenths * rrr.risk
RatioBelow(rrr, tenths) == ~RatioAtLeast(rrr, tenths)

\* int(x) of Go for x = a / b, b > 0: the quotient cut towards zero
IntOf(a, b) == IF a >= 0 THEN a \div b ELSE 0 - ((0 - a) \div b)

\* the four parts of the score
confidenceScore(signal) == IntOf(signal.Confidence * 4, 100)

riskRewardScore(signal) ==
    LET rrr == calculateRiskReward(signal) IN
    IF RatioAtLeast(rrr, 30) THEN 25
    ELSE IF RatioAtLeast(rrr, 25) THEN 20
    ELSE IF RatioAtLeast(rrr, 20) THEN 15
    ELSE IF RatioAtLeast(rrr, 15) THEN 10
    ELSE 0

\* techScore with the two RSI tests of a direction both counted
techScoreRsiAdditive(signal, data) ==
    LET long  == signal.Signal = SignalOpenLong
        short == signal.Signal = SignalOpenShort
    IN  (IF long /\ data.CurrentRSI7 < 35 THEN 7
         ELSE IF short /\ data.CurrentRSI7 > 65 THEN 7
         ELSE 0)
        + (IF long /\ data.CurrentRSI7 < 45 THEN 3
           ELSE IF short /\ data.CurrentRSI7 > 55 THEN 3
           ELSE 0)
        + (IF long /\ data.CurrentMACD > 0 THEN 6
           ELSE IF short /\ data.CurrentMACD < 0 THEN 6
           ELSE 0)
        + (IF long /\ data.CurrentPrice > data.CurrentEMA20 THEN 6
           ELSE IF short /\ data.CurrentPrice < data.CurrentEMA20 THEN 6
           ELSE 0)
        + (IF data.FundingRate # 0
           THEN IF long /\ data.FundingRate < -1 THEN 6
                ELSE IF short /\ data.FundingRate > 1 THEN 6
                ELSE 0
           ELSE 0)

techScore(signal, data) ==
    LET long  == signal.Signal = SignalOpenLong
        short == signal.Signal = SignalOpenShort
    IN  (IF long /\ data.CurrentRSI7 < 35 THEN 7
         ELSE IF short /\ data.CurrentRSI7 > 65 THEN 7
         ELSE IF long /\ data.CurrentRSI7 < 45 THEN 3
         ELSE IF short /\ data.CurrentRSI7 > 55 THEN 3
         ELSE 0)
        + (IF long /\ data.CurrentMACD > 0 THEN 6
           ELSE IF short /\ data.CurrentMACD < 0 THEN 6
           ELSE 0)
        + (IF long /\ data.CurrentPrice > data.CurrentEMA20 THEN 6
           ELSE IF short /\ data.CurrentPrice < data.CurrentEMA20 THEN 6
           ELSE 0)
        + (IF data.FundingRate # 0
           THEN IF long /\ data.FundingRate < -1 THEN 6
                ELSE IF short /\ data.FundingRate > 1 THEN 6
                ELSE 0
           ELSE 0)

volumeScore(data) ==
    LET ltc == data.LongerTermContext IN
    IF ~ltc.nil /\ ltc.AverageVolume > 0
    THEN IF ltc.CurrentVolume * 10 > 20 * ltc.AverageVolume THEN 10
         ELSE IF ltc.CurrentVolume * 10 > 15 * ltc.AverageVolume THEN 7
         ELSE IF ltc.CurrentVolume * 10 > 12 * ltc.AverageVolume THEN 4
         ELSE 0
    ELSE 0

calculatePriorityScore(signal, data) ==
    confidenceScore(signal) + riskRewardScore(signal) + techScore(signal, data)
    + volumeScore(data)

NoOpportunity ==
    [nil |-> TRUE, Symbol |-> "", Signal |-> "", Confidence |-> 0,
     EntryPrice |-> 0, StopLoss |-> 0, TakeProfit |-> 0, CurrentPrice |-> 0,
     Priority |-> 0, RiskRewardRatio |-> [reward |-> 0, risk |-> 1]]

\* what scanSymbol obtains from market.GetMarketData and
\* market.GetAITradingSignal
Obtained(dataErr, signalErr, data, signal) ==
    [dataErr |-> dataErr, signalErr |-> signalErr, data |-> data, signal |-> signal]

scanSymbol(config, symbol, in) ==
    IF in.dataErr # "nil" THEN [opp |-> NoOpportunity, err |-> in.dataErr]
    ELSE IF in.signalErr # "nil" THEN [opp |-> NoOpportunity, err |-> in.signalErr]
    ELSE IF ~isValidTradingSignal(config, in.signal)
    THEN [opp |-> NoOpportunity, err |-> "nil"]
    ELSE LET priority == calculatePriorityScore(in.signal, in.data)
             rrr      == calculateRiskReward(in.signal)
         IN  IF priority < config.MinPriority
             THEN [opp |-> NoOpportunity, err |-> "nil"]
             ELSE IF RatioBelow(rrr, config.MinRiskRewardRatio)
             THEN [opp |-> NoOpportunity, err |-> "nil"]
             ELSE [opp |-> [nil |-> FALSE, Symbol |-> symbol,
                            Signal |-> in.signal.Signal,
                            Confidence |-> in.signal.Confidence,
                            EntryPrice |-> in.signal.EntryPrice,
                            StopLoss |-> in.signal.StopLoss,
                            TakeProfit |-> in.signal.TakeProfit,
                            CurrentPrice |-> in.data.CurrentPrice,
                            Priority |-> priority, RiskRewardRatio |-> rrr],
                   err |-> "nil"]

NoSnapshot == Snapshot(0, 0, 0, 0, 0, NilContext)
NoSignal == TradingSignal("", 0, 0, 0, 0)

SymbolIdle ==
    /\ symIn = Obtained("nil", "nil", NoSnapshot, NoSignal)
    /\ symRet = [opp |-> NoOpportunity, err |-> "pending"]
    /\ symScore = [done |-> FALSE, confidence |-> 0, riskReward |-> 0,
                   tech |-> 0, volume |-> 0, total |-> 0]

----------------------------------------------------------------------------
(* parseAIResponse *)

\* A response is a sequence of units.  The two fence units stand for the
\* texts of three backquotes followed by "json" and of three backquotes; no
\* other unit holds a backquote.  Indexes are byte offsets as in the source.
FenceJson == "FENCE_JSON"
Fence == "FENCE"

\* len(u) in bytes
Width(u) ==
    IF u = FenceJson THEN 7
    ELSE IF u = Fence THEN 3
    ELSE Len(u)

\* the bytes of s[lo..hi]: the left half, then the right
RECURSIVE BytesOf(_, _, _)
BytesOf(s, lo, hi) ==
    IF lo > hi THEN 0
    ELSE IF lo = hi THEN Width(s[lo])
    ELSE LET mid == (lo + hi) \div 2
         IN  BytesOf(s, lo, mid) + BytesOf(s, mid + 1, hi)

\* len(s)
ByteLen(s) == BytesOf(s, 1, Len(s))

\* byte offset of unit i of s
OffsetOf(s, i) == BytesOf(s, 1, i - 1)

\* byte offset of the first unit of s at a position of the set at, -1 when
\* there is none
FirstAt(s, at) == IF at = {} THEN -1 ELSE OffsetOf(s, MinOf(at))

\* strings.Index(s, three backquotes and "json")
IndexFenceJson(s) == FirstAt(s, {i \in 1..Len(s) : s[i] = FenceJson})

\* strings.Index(s, three backquotes and a line feed)
IndexFenceNewline(s) ==
    FirstAt(s, {i \in 1..Len(s) - 1 : s[i] = Fence /\ s[i + 1] = NL})

\* strings.Index(s, three backquotes)
IndexFence(s) == FirstAt(s, {i \in 1..Len(s) : s[i] \in {Fence, FenceJson}})

\* strings.Index(s, "{")
IndexBrace(s) == FirstAt(s, {i \in 1..Len(s) : s[i] = "{"})

\* s[lo:hi] for byte offsets lo <= hi <= len(s): the units that lie within
\* the two offsets.  A unit that an offset cuts is left out; parseAIResponse
\* cuts one only at offset 6 of a response without the opening fence, and
\* uses that tail for nothing but the search of a closing fence.
ByteSlice(s, lo, hi) ==
    LET within == {i \in 1..Len(s) :
                       OffsetOf(s, i) >= lo /\ OffsetOf(s, i + 1) <= hi}
    IN  IF within = {} THEN <<>> ELSE SubSeq(s, MinOf(within), MaxOf(within))

\* the state of the brace loop: the count, and the end offset once found
BraceStart == [done |-> FALSE, braceCount |-> 0, jsonEnd |-> -1]

\* the body of the loop at unit i; units of several bytes hold no brace
BraceStep(s, i, st) ==
    IF st.done THEN st
    ELSE IF s[i] = "{" THEN [st EXCEPT !.braceCount = @ + 1]
    ELSE IF s[i] = "}"
         THEN IF st.braceCount - 1 = 0
              THEN [done |-> TRUE, braceCount |-> 0, jsonEnd |-> OffsetOf(s, i) + 1]
              ELSE [st EXCEPT !.braceCount = @ - 1]
    ELSE st

\* the loop over the units lo..hi from state st: the left half, then the right
RECURSIVE BraceScan(_, _, _, _)
BraceScan(s, lo, hi, st) ==
    IF lo > hi \/ st.done THEN st
    ELSE IF lo = hi THEN BraceStep(s, lo, st)
    ELSE LET mid == (lo + hi) \div 2
         IN  BraceScan(s, mid + 1, hi, BraceScan(s, lo, mid, st))

\* the text of a string literal
RECURSIVE Joined(_)
Joined(units) == IF units = <<>> THEN "" ELSE Head(units) \o Joined(Tail(units))

\* value of a numeral decoded into a float64 field that counts 1/10
NumeralTenths(tok) == IF tok = FractionNumeral THEN 15 ELSE NumeralInt(tok) * 10

\* the zero TradingSignal; the signals of parseAIResponse count every
\* float64 field in 1/10
ZeroSignal == [Symbol |-> "", Signal |-> "", Confidence |-> 0, Reasoning |-> "",
               EntryPrice |-> 0, StopLoss |-> 0, TakeProfit |-> 0]

SignalStringFields ==
    [symbol |-> "Symbol", signal |-> "Signal", reasoning |-> "Reasoning"]

SignalFloatFields ==
    [confidence |-> "Confidence", entry_price |-> "EntryPrice",
     stop_loss |-> "StopLoss", take_profit |-> "TakeProfit"]

\* The member with the given key, whose value starts at t[p], decoded into
\* the TradingSignal g: [ok, d].  A key that names no field is skipped; null
\* leaves the field as it is.
DecodeSignalMember(g, key, t, p) ==
    LET name == Joined(key)
        kind == ValueKind(t, p)
    IN  IF kind = "null" THEN [ok |-> TRUE, d |-> g]
        ELSE IF name \in DOMAIN SignalStringFields
        THEN IF kind = "string"
             THEN [ok |-> TRUE,
                   d |-> [g EXCEPT ![SignalStringFields[name]] =
                                       Joined(SubSeq(t, p + 1, ValueEnd(t, p) - 1))]]
             ELSE [ok |-> FALSE, d |-> g]
        ELSE IF name \in DOMAIN SignalFloatFields
        THEN IF kind = "number"
             THEN [ok |-> TRUE,
                   d |-> [g EXCEPT ![SignalFloatFields[name]] = NumeralTenths(t[p])]]
             ELSE [ok |-> FALSE, d |-> g]
        ELSE [ok |-> TRUE, d |-> g]

\* the members of the object from t[p0] on, decoded in order into g
RECURSIVE DecodeSignalMembers(_, _, _)
DecodeSignalMembers(g, t, p0) ==
    LET p1 == SkipWs(t, p0)
        p  == IF t[p1] = "," THEN SkipWs(t, p1 + 1) ELSE p1
    IN  IF t[p] = "}" THEN [ok |-> TRUE, d |-> g]
        ELSE LET kend == StringEnd(t, p + 1)
                 v    == SkipWs(t, SkipWs(t, kend + 1) + 1)
                 r    == DecodeSignalMember(g, SubSeq(t, p + 1, kend - 1), t, v)
             IN  IF ~r.ok THEN [ok |-> FALSE, d |-> g]
                 ELSE DecodeSignalMembers(r.d, t, ValueEnd(t, v) + 1)

\* json.Unmarshal([]byte(jsonContent), &signal): [ok, d]
UnmarshalSignal(jsonContent) ==
    IF ~JsonValid(jsonContent) THEN [ok |-> FALSE, d |-> ZeroSignal]
    ELSE LET p == SkipWs(jsonContent, 1)
         IN  IF ValueKind(jsonContent, p) = "null" THEN [ok |-> TRUE, d |-> ZeroSignal]
             ELSE IF ValueKind(jsonContent, p) # "object"
             THEN [ok |-> FALSE, d |-> ZeroSignal]
             ELSE DecodeSignalMembers(ZeroSignal, jsonContent, p + 1)

validSignals ==
    {SignalOpenLong, SignalOpenShort, SignalCloseLong, SignalCloseShort,
     SignalHold, SignalWait}

\* what a call of parseAIResponse comes to: kind "signal" with the signal,
\* kind "error" with the failing step, or kind "panic" for a slice out of range
ParseResult(kind, signal, cause) ==
    [kind |-> kind, signal |-> signal, err |-> cause]

ParsePending == ParseResult("pending", ZeroSignal, "nil")

\* lines 399-424: decoding and the two validations
decodeAndValidate(jsonContent) ==
    LET r == UnmarshalSignal(jsonContent)
    IN  IF ~r.ok THEN ParseResult("error", ZeroSignal, "unmarshal")
        ELSE IF r.d.Signal \notin validSignals
        THEN ParseResult("error", ZeroSignal, "invalid signal type")
        ELSE IF r.d.Confidence < 0 \/ r.d.Confidence > 1000
        THEN ParseResult("signal", [r.d EXCEPT !.Confidence = 500], "nil")
        ELSE ParseResult("signal", r.d, "nil")

\* lines 372-397: the first complete object of the response
firstObject(response) ==
    LET jsonStart == IndexBrace(response)
    IN  IF jsonStart = -1 THEN ParseResult("error", ZeroSignal, "no JSON")
        ELSE LET first == MinOf({i \in 1..Len(response) : response[i] = "{"})
                 jsonEnd == BraceScan(response, first, Len(response), BraceStart).jsonEnd
             IN  IF jsonEnd = -1
                 THEN ParseResult("error", ZeroSignal, "no complete object")
                 ELSE decodeAndValidate(ByteSlice(response, jsonStart, jsonEnd))

parseAIResponse(response) ==
    LET jsonStart == IndexFenceJson(response)
        jsonEnd0  == IndexFenceNewline(response)
        retry     == jsonEnd0 = -1 \/ jsonEnd0 <= jsonStart
    IN  IF retry /\ jsonStart + 7 > ByteLen(response)
        THEN ParseResult("panic", ZeroSignal, "slice bounds out of range")
        ELSE LET inTail  == IndexFence(ByteSlice(response, jsonStart + 7,
                                                 ByteLen(response)))
                 jsonEnd == IF ~retry THEN jsonEnd0
                            ELSE IF inTail # -1 THEN inTail + jsonStart + 7
                            ELSE -1
             IN  IF jsonStart # -1 /\ jsonEnd # -1 /\ jsonEnd > jsonStart
                 THEN decodeAndValidate(ByteSlice(response, jsonStart + 7, jsonEnd))
                 ELSE firstObject(response)

ParseIdle ==
    /\ signalText = <<>>
    /\ parseRet = ParsePending

TailIdle == SymbolIdle /\ ParseIdle

SystemIdle == LifecycleIdle /\ ConfigIdle /\ ScanIdle /\ TailIdle

ExtIdle == FetchIdle /\ GatewayIdle /\ AdaptiveIdle /\ PromptIdle /\ SystemIdle

----------------------------------------------------------------------------
(* The decision cycle *)

Pending == [err |-> "pending", index |-> 0, examined |-> 0, args |-> <<>>]

ValidatorIdle ==
    /\ vDecisions = <<>>
    /\ vEquity = 0
    /\ vResult = Pending

PipelineIdle ==
    /\ pc = "idle"
    /\ equity = 0
    /\ aiResponse = <<>>
    /\ aiErr = NoError
    /\ decision = NilDecision
    /\ err = NoError
    /\ retDecision = NilDecision
    /\ retErr = NoError
    /\ stages = <<>>

Init == PipelineIdle /\ ValidatorIdle /\ ExtIdle

\* the functions run up to the AI call (lines 732-741)
stagesToAICall ==
    <<"fetchMarketDataForContext", "buildSystemPrompt", "buildUserPrompt",
      "callAIWithMessages">>

\* the functions parseFullDecisionResponse runs on the response
parseStages(response) ==
    <<"extractCoTTrace", "extractDecisions">>
    \o (IF extractDecisions(response).err = "nil" THEN <<"validateDecisions">> ELSE <<>>)

\* Mutant: the response is parsed also when the AI call failed
GetFullTradingDecisionParseAlways(eq, outcome) ==
    /\ pc = "idle"
    /\ pc' = "returned"
    /\ equity' = eq
    /\ aiResponse' = outcome.text
    /\ aiErr' = outcome.err
    /\ stages' = stagesToAICall \o parseStages(outcome.text)
    /\ LET r == parseFullDecisionResponse(outcome.text, eq)
       IN  /\ decision' = r.decision
           /\ err' = r.err
           /\ IF r.err # NoError \/ outcome.err # NoError
              THEN /\ retDecision' = NilDecision
                   /\ retErr' = IF outcome.err # NoError
                                THEN [outcome.err EXCEPT !.wrap = "call AI API failed"]
                                ELSE [r.err EXCEPT !.wrap = "parse AI response failed"]
              ELSE /\ retDecision' =
                          [r.decision EXCEPT !.UserPrompt = userPrompt(eq)]
                   /\ retErr' = NoError
    /\ UNCHANGED <<vDecisions, vEquity, vResult>>
    /\ UNCHANGED extVars

\* One call of GetFullTradingDecision with ctx.Account.TotalEquity = eq and
\* the given outcome of the AI call.  fetchMarketDataForContext returns nil.
GetFullTradingDecision(eq, outcome) ==
    /\ pc = "idle"
    /\ pc' = "returned"
    /\ equity' = eq
    /\ aiResponse' = outcome.text
    /\ aiErr' = outcome.err
    /\ IF outcome.err # NoError
       THEN /\ decision' = NilDecision
            /\ err' = NoError
            /\ retDecision' = NilDecision
            /\ retErr' = [outcome.err EXCEPT !.wrap = "call AI API failed"]
            /\ stages' = stagesToAICall
       ELSE LET r == parseFullDecisionResponse(outcome.text, eq)
            IN  /\ decision' = r.decision
                /\ err' = r.err
                /\ stages' = stagesToAICall \o parseStages(outcome.text)
                /\ IF r.err # NoError
                   THEN /\ retDecision' = NilDecision
                        /\ retErr' = [r.err EXCEPT !.wrap = "parse AI response failed"]
                   ELSE /\ retDecision' =
                               [r.decision EXCEPT !.UserPrompt = userPrompt(eq)]
                        /\ retErr' = NoError
    /\ UNCHANGED <<vDecisions, vEquity, vResult>>
    /\ UNCHANGED extVars

\* the trading loop starts its next cycle: the results of the last call are dropped
NextCycle ==
    /\ pc = "returned"
    /\ pc' = "idle"
    /\ equity' = 0
    /\ aiResponse' = <<>>
    /\ aiErr' = NoError
    /\ decision' = NilDecision
    /\ err' = NoError
    /\ retDecision' = NilDecision
    /\ retErr' = NoError
    /\ stages' = <<>>
    /\ UNCHANGED <<vDecisions, vEquity, vResult>>
    /\ UNCHANGED extVars

CallFails == \E eq \in Equities : GetFullTradingDecision(eq, AIOutcome(TRUE, <<>>))

CallAnswers ==
    \E eq \in Equities, text \in Responses :
        GetFullTradingDecision(eq, AIOutcome(FALSE, text))

Next == CallFails \/ CallAnswers \/ NextCycle

Spec == Init /\ [][Next]_vars

Returned == pc = "returned"


----------------------------------------------------------------------------
(* The validator on its own: validateDecisions applied to a batch *)

Decision(symbol, action, leverage, size, sl, tp) ==
    [ZeroDecision EXCEPT !.Symbol = symbol, !.Action = action, !.Leverage = leverage,
                         !.PositionSizeUSD = size, !.StopLoss = sl, !.TakeProfit = tp]

\* cap x equity x 1.01 with cap 10 or 1.5, for an equity of whole USD
SizeBound(major, accountEquity) ==
    (accountEquity \div 1000) * (IF major THEN 10100 ELSE 1515)

InSymbols == {<<"BTCUSDT">>, <<"ETHUSDT">>, <<"SOLUSDT">>, <<"btcusdt">>}

InActions ==
    {<<"open_long">>, <<"open_short">>, <<"close_long">>, <<"close_short">>,
     <<"hold">>, <<"wait">>, <<"bogus">>, <<>>, <<"OPEN_LONG">>}

InLeverages == {-1, 0, 1, 20, 21, 30, 50, 51}

InSizes ==
    {UsdUnits(-1), 0, 1, UsdUnits(100)}
    \cup {SizeBound(major, eq) + k :
              major \in BOOLEAN, eq \in Equities, k \in {0, 1, UsdUnits(1)}}

InPrices == {UsdUnits(-1), 0, UsdUnits(1), UsdUnits(2)}

InStops ==
    {<<sl, tp>> \in InPrices \X InPrices : sl >= 0 \/ tp = UsdUnits(1)}

InDecisions ==
    { Decision(sym, act, lev, size, st[1], st[2]) :
          sym \in InSymbols, act \in InActions, lev \in InLeverages,
          size \in InSizes, st \in InStops }

SampleDecisions ==
    { Decision(<<"BTCUSDT">>, <<"open_long">>, 50, UsdUnits(500), UsdUnits(1), UsdUnits(2)),
      Decision(<<"SOLUSDT">>, <<"open_long">>, 30, UsdUnits(100), UsdUnits(1), UsdUnits(2)),
      Decision(<<"ETHUSDT">>, <<"hold">>, 0, 0, 0, 0),
      Decision(<<"SOLUSDT">>, <<"bogus">>, 0, 0, 0, 0) }

\* open decisions valid in every checked field, with the confidence and
\* risk_usd the response gave (0 also when the response gave none)
InConfidences == {-1, 0, 85, 100, 101}

InRisks == {UsdUnits(-1), 0, UsdUnits(2)}

ContractDecisions ==
    { [Decision(<<"BTCUSDT">>, act, 50, UsdUnits(500), st[1], st[2])
          EXCEPT !.Confidence = c, !.RiskUSD = r] :
          act \in {<<"open_long">>, <<"open_short">>, <<"bogus">>},
          st \in {<<UsdUnits(1), UsdUnits(2)>>, <<UsdUnits(2), UsdUnits(1)>>},
          c \in InConfidences, r \in InRisks }

InBatches ==
    {<<d>> : d \in InDecisions \cup ContractDecisions}
    \cup SeqsUpTo(SampleDecisions, MaxBatch)

\* account equities given to the validator, zero and negative ones included
InEquities == Equities \cup {0, UsdUnits(-100)}

InitValidate ==
    /\ PipelineIdle
    /\ ExtIdle
    /\ vDecisions \in InBatches
    /\ vEquity \in InEquities
    /\ vResult = Pending

ValidateDecisions ==
    /\ vResult = Pending
    /\ vResult' = validateDecisions(vDecisions, vEquity)
    /\ UNCHANGED <<pc, equity, aiResponse, aiErr, decision, err, retDecision, retErr,
                   stages, vDecisions, vEquity>>
    /\ UNCHANGED extVars

NextValidate == ValidateDecisions

SpecValidate == InitValidate /\ [][NextValidate]_vars

Validated == vResult # Pending


----------------------------------------------------------------------------
(* The assembler on its own: fetchMarketDataForContext applied to a context *)

CoreIdle == PipelineIdle /\ ValidatorIdle

InitFetch ==
    /\ CoreIdle
    /\ SystemIdle
    /\ GatewayIdle
    /\ AdaptiveIdle
    /\ PromptIdle
    /\ ctx \in InContexts
    /\ source \in InSources
    /\ oiTop \in InOITops
    /\ fetchRet = "pending"

FetchMarketDataForContext ==
    /\ fetchRet = "pending"
    /\ ctx' = fetchMarketDataForContext(ctx, source, oiTop).ctx
    /\ fetchRet' = fetchMarketDataForContext(ctx, source, oiTop).err
    /\ UNCHANGED <<source, oiTop>>
    /\ UNCHANGED <<coreVars, gatewayVars, adaptiveVars, promptVars, systemVars>>

NextFetch == FetchMarketDataForContext

SpecFetch == InitFetch /\ [][NextFetch]_vars

FetchedContext == fetchRet # "pending"

----------------------------------------------------------------------------
(* The gateway on its own: one call of callDeepSeekAPI *)

NetworkError(class, message) ==
    Endpoint(class, message, NoMessage, 0, <<>>, FALSE, NoMessage, <<>>)

Response(class, status, body, decodes, jsonErr, choices) ==
    Endpoint(class, NoMessage, NoMessage, status, body, decodes, jsonErr, choices)

Endpoints ==
    { NetworkError("timeout", <<"dial", "tcp:", "i/o", "timeout">>),
      NetworkError("reset", <<"read:", "connection reset">>),
      NetworkError("refused", <<"connect:", "connection refused">>),
      NetworkError("eof", <<"EOF">>),
      NetworkError("dns", <<"lookup:", "no such host">>),
      NetworkError("tls", <<"x509:", "certificate", "expired">>),
      Endpoint("eof", NoMessage, <<"unexpected", "EOF">>, 200, <<>>, FALSE, NoMessage, <<>>),
      Response("status", 401, <<"invalid", "api", "key">>, FALSE, NoMessage, <<>>),
      Response("status", 504, <<"upstream", "request", "timeout">>, FALSE, NoMessage, <<>>),
      Response("garbled", 200, <<"<html>">>, FALSE, <<"invalid", "character">>, <<>>),
      Response("empty", 200, <<"{}">>, TRUE, NoMessage, <<>>),
      Response("ok", 200, <<"{choices}">>, TRUE, NoMessage, <<<<"HOLD">>>>) }

InitGateway ==
    /\ CoreIdle
    /\ SystemIdle
    /\ FetchIdle
    /\ AdaptiveIdle
    /\ PromptIdle
    /\ defaultConfig \in {DefaultAIConfig,
                           StoreAll(DefaultAIConfig, SetDeepSeekAPIKey("sk-key"))}
    /\ gwPc = "idle"
    /\ attempt = 0
    /\ lastErr = NoMessage
    /\ gwLog = <<>>
    /\ gwWaits = <<>>
    /\ gwRet = [result |-> <<>>, err |-> NoMessage]

\* callDeepSeekAPI up to the head of the loop
CallDeepSeekAPI ==
    /\ gwPc = "idle"
    /\ IF defaultConfig.APIKey = ""
       THEN /\ gwPc' = "returned"
            /\ gwRet' = [result |-> <<>>, err |-> <<"AI API key not set">>]
            /\ attempt' = attempt
       ELSE /\ gwPc' = "loop"
            /\ gwRet' = gwRet
            /\ attempt' = 1
    /\ UNCHANGED <<defaultConfig, lastErr, gwLog, gwWaits>>
    /\ UNCHANGED <<coreVars, fetchVars, adaptiveVars, promptVars, systemVars>>

\* one pass of the loop body, the endpoint behaving as ep, up to the head of
\* the next pass or to the return
AttemptOnce(ep) ==
    /\ gwPc = "loop"
    /\ attempt <= maxRetries
    /\ LET r == callDeepSeekAPIOnce(ep)
       IN  /\ gwLog' = Append(gwLog, [ep |-> ep, r |-> r])
           /\ IF r.err = NoMessage
              THEN /\ gwPc' = "returned"
                   /\ gwRet' = [result |-> r.result, err |-> NoMessage]
                   /\ UNCHANGED <<attempt, lastErr, gwWaits>>
              ELSE /\ lastErr' = r.err
                   /\ IF ~isRetryableError(r.err)
                      THEN /\ gwPc' = "returned"
                           /\ gwRet' = [result |-> <<>>, err |-> r.err]
                           /\ UNCHANGED <<attempt, gwWaits>>
                      ELSE /\ gwWaits' = IF attempt < maxRetries
                                         THEN Append(gwWaits, attempt * 2)
                                         ELSE gwWaits
                           /\ attempt' = attempt + 1
                           /\ IF attempt + 1 <= maxRetries
                              THEN gwPc' = "loop" /\ gwRet' = gwRet
                              ELSE /\ gwPc' = "returned"
                                   /\ gwRet' =
                                          [result |-> <<>>,
                                           err |-> <<"still failing after",
                                                     ToString(maxRetries), "retries:">>
                                                   \o r.err]
    /\ UNCHANGED defaultConfig
    /\ UNCHANGED <<coreVars, fetchVars, adaptiveVars, promptVars, systemVars>>

Attempt == \E ep \in Endpoints : AttemptOnce(ep)

NextGateway == CallDeepSeekAPI \/ Attempt

SpecGateway == InitGateway /\ [][NextGateway]_vars

GatewayReturned == gwPc = "returned"

----------------------------------------------------------------------------
(* Start and stop requests for one trader, interleaved with the goroutines *)
(* that execute trader.Run()                                               *)

engineVars == <<coreVars, fetchVars, gatewayVars, adaptiveVars, promptVars>>

EngineIdle == CoreIdle /\ FetchIdle /\ GatewayIdle /\ AdaptiveIdle /\ PromptIdle

InitLifecycle ==
    /\ EngineIdle
    /\ LifecycleIdle
    /\ ConfigIdle
    /\ ScanIdle
    /\ TailIdle

\* handleStartTrader up to the test of status["is_running"]
HandleStartCheck(h) ==
    /\ reqPc[h] = "idle"
    /\ reqPc' = [reqPc EXCEPT ![h] = IF isRunning THEN "rejected" ELSE "checked"]
    /\ UNCHANGED <<isRunning, runs, dbIsRunning>>
    /\ UNCHANGED <<engineVars, configVars, scanVars, tailVars>>

\* the go statement of handleStartTrader
HandleStartLaunch(h) ==
    /\ reqPc[h] = "checked"
    /\ reqPc' = [reqPc EXCEPT ![h] = "launched"]
    /\ runs' = [runs EXCEPT ![h] = "spawned"]
    /\ UNCHANGED <<isRunning, dbIsRunning>>
    /\ UNCHANGED <<engineVars, configVars, scanVars, tailVars>>

\* UpdateTraderStatus(traderID, true) and the reply of handleStartTrader
HandleStartUpdate(h) ==
    /\ reqPc[h] = "launched"
    /\ reqPc' = [reqPc EXCEPT ![h] = "done"]
    /\ dbIsRunning' = TRUE
    /\ UNCHANGED <<isRunning, runs>>
    /\ UNCHANGED <<engineVars, configVars, scanVars, tailVars>>

\* StartAll: one goroutine per trader, without a test
StartAll ==
    /\ reqPc["startAll"] = "idle"
    /\ reqPc' = [reqPc EXCEPT !["startAll"] = "done"]
    /\ runs' = [runs EXCEPT !["startAll"] = "spawned"]
    /\ UNCHANGED <<isRunning, dbIsRunning>>
    /\ UNCHANGED <<engineVars, configVars, scanVars, tailVars>>

\* handleStopTrader: rejected when the trader is stopped, else trader.Stop()
\* and UpdateTraderStatus(traderID, false)
HandleStopTrader ==
    /\ isRunning
    /\ isRunning' = FALSE
    /\ dbIsRunning' = FALSE
    /\ UNCHANGED <<runs, reqPc>>
    /\ UNCHANGED <<engineVars, configVars, scanVars, tailVars>>

\* trader.Run(): marks the trader as running and enters the loop
RunBegin(g) ==
    /\ runs[g] = "spawned"
    /\ runs' = [runs EXCEPT ![g] = "looping"]
    /\ isRunning' = TRUE
    /\ UNCHANGED <<reqPc, dbIsRunning>>
    /\ UNCHANGED <<engineVars, configVars, scanVars, tailVars>>

\* the loop starts a pipeline cycle
RunCycleBegin(g) ==
    /\ runs[g] = "looping"
    /\ isRunning
    /\ runs' = [runs EXCEPT ![g] = "cycle"]
    /\ UNCHANGED <<isRunning, reqPc, dbIsRunning>>
    /\ UNCHANGED <<engineVars, configVars, scanVars, tailVars>>

\* the cycle ends
RunCycleEnd(g) ==
    /\ runs[g] = "cycle"
    /\ runs' = [runs EXCEPT ![g] = "looping"]
    /\ UNCHANGED <<isRunning, reqPc, dbIsRunning>>
    /\ UNCHANGED <<engineVars, configVars, scanVars, tailVars>>

\* the loop sees the trader stopped and Run returns
RunExit(g) ==
    /\ runs[g] = "looping"
    /\ ~isRunning
    /\ runs' = [runs EXCEPT ![g] = "exited"]
    /\ UNCHANGED <<isRunning, reqPc, dbIsRunning>>
    /\ UNCHANGED <<engineVars, configVars, scanVars, tailVars>>

NextLifecycle ==
    \/ \E h \in StartHandlers : HandleStartCheck(h)
    \/ \E h \in StartHandlers : HandleStartLaunch(h)
    \/ \E h \in StartHandlers : HandleStartUpdate(h)
    \/ StartAll
    \/ HandleStopTrader
    \/ \E g \in Starters : RunBegin(g)
    \/ \E g \in Starters : RunCycleBegin(g)
    \/ \E g \in Starters : RunCycleEnd(g)
    \/ \E g \in Starters : RunExit(g)

SpecLifecycle == InitLifecycle /\ [][NextLifecycle]_vars

----------------------------------------------------------------------------
(* Two trading instances: each configures its provider, then makes one AI *)
(* call; stores and loads of defaultConfig interleave                    *)

gatewayCallVars == <<gwPc, attempt, lastErr, gwLog, gwWaits, gwRet>>

InitConfig ==
    /\ CoreIdle
    /\ FetchIdle
    /\ AdaptiveIdle
    /\ PromptIdle
    /\ LifecycleIdle
    /\ ScanIdle
    /\ TailIdle
    /\ GatewayIdle
    /\ setterOf \in [Instances -> Setters]
    /\ instPc = [i \in Instances |-> [phase |-> "configure", step |-> 0]]
    /\ request = [i \in Instances |-> NoRequest]

\* the next store of the configuration function of instance i
ConfigureStep(i) ==
    LET writes == ConfigWrites(i, setterOf[i])
        k      == instPc[i].step + 1
    IN  /\ instPc[i].phase = "configure"
        /\ defaultConfig' = Store(defaultConfig, writes[k])
        /\ instPc' = [instPc EXCEPT ![i] =
                          IF k = Len(writes) THEN [phase |-> "call", step |-> 0]
                          ELSE [phase |-> "configure", step |-> k]]
        /\ UNCHANGED <<setterOf, request>>
        /\ UNCHANGED <<coreVars, fetchVars, adaptiveVars, promptVars,
                       lifecycleVars, scanVars, tailVars, gatewayCallVars>>

\* the next load of defaultConfig by the AI call of instance i
CallStep(i) ==
    LET k     == instPc[i].step + 1
        field == CallReads[k]
    IN  /\ instPc[i].phase = "call"
        /\ IF k = 1
           THEN /\ instPc' = [instPc EXCEPT ![i] =
                                  IF defaultConfig.APIKey = ""
                                  THEN [phase |-> "done", step |-> 0]
                                  ELSE [phase |-> "call", step |-> k]]
                /\ UNCHANGED request
           ELSE /\ request' = [request EXCEPT ![i] =
                                   [@ EXCEPT ![field] = defaultConfig[field],
                                             !.sent = (k = Len(CallReads))]]
                /\ instPc' = [instPc EXCEPT ![i] =
                                  IF k = Len(CallReads)
                                  THEN [phase |-> "done", step |-> 0]
                                  ELSE [phase |-> "call", step |-> k]]
        /\ UNCHANGED <<setterOf, defaultConfig>>
        /\ UNCHANGED <<coreVars, fetchVars, adaptiveVars, promptVars,
                       lifecycleVars, scanVars, tailVars, gatewayCallVars>>

NextConfig ==
    \/ \E i \in Instances : ConfigureStep(i)
    \/ \E i \in Instances : CallStep(i)

SpecConfig == InitConfig /\ [][NextConfig]_vars

----------------------------------------------------------------------------
(* One call of ScanMarket: the workers, the closer and the collector *)

MaxSymbols == 2

ScanSymbols == {"BTCUSDT", "SOLUSDT"}

InScans ==
    UNION {{ScanError(y), ScanNone(y), ScanFound(y, 60), ScanFound(y, 80)} :
               y \in ScanSymbols}

\* the values of MaxConcurrent installed through SetScanConfig
InMaxConcurrent == {0, 1, 2}

InitScan ==
    /\ EngineIdle
    /\ LifecycleIdle
    /\ ConfigIdle
    /\ TailIdle
    /\ defaultScanConfig \in
           {[DefaultScanConfig EXCEPT !.MaxConcurrent = n] : n \in InMaxConcurrent}
    /\ scanInput \in SeqsUpTo(InScans, MaxSymbols)
    /\ scanPc = "idle"
    /\ workerPc = <<>>
    /\ semaphore = 0
    /\ oppChan = <<>>
    /\ errChan = <<>>
    /\ chansClosed = FALSE
    /\ collector = [oppChan |-> "open", errChan |-> "open"]
    /\ opportunities = <<>>
    /\ errorCount = 0
    /\ scanRet = [opportunities |-> <<>>, err |-> "pending"]

scanRest == <<engineVars, lifecycleVars, configVars, tailVars>>

Workers == DOMAIN workerPc

\* ScanMarket from its entry to the start of the collector loop: the test of
\* the list, the channels, one goroutine per symbol
ScanMarket ==
    /\ scanPc = "idle"
    /\ IF Len(scanInput) = 0
       THEN /\ scanPc' = "returned"
            /\ scanRet' = [opportunities |-> <<>>, err |-> "symbol list is empty"]
            /\ UNCHANGED workerPc
       ELSE IF defaultScanConfig.MaxConcurrent < 0
       THEN \* make(chan struct{}, n) with n < 0 panics
            /\ scanPc' = "panicked"
            /\ UNCHANGED <<scanRet, workerPc>>
       ELSE /\ scanPc' = "collect"
            /\ workerPc' = [i \in 1..Len(scanInput) |-> "spawned"]
            /\ UNCHANGED scanRet
    /\ UNCHANGED <<defaultScanConfig, scanInput, semaphore, oppChan, errChan,
                   chansClosed, collector, opportunities, errorCount>>
    /\ UNCHANGED scanRest

\* the worker without the semaphore
AcquireUnbounded(w) ==
    /\ w \in Workers
    /\ workerPc[w] = "spawned"
    /\ semaphore' = semaphore + 1
    /\ workerPc' = [workerPc EXCEPT ![w] = "scanning"]
    /\ UNCHANGED <<defaultScanConfig, scanInput, scanPc, oppChan, errChan,
                   chansClosed, collector, opportunities, errorCount, scanRet>>
    /\ UNCHANGED scanRest

\* semaphore <- struct{}{} : possible while the channel has room
Acquire(w) ==
    /\ w \in Workers
    /\ workerPc[w] = "spawned"
    /\ semaphore < defaultScanConfig.MaxConcurrent
    /\ semaphore' = semaphore + 1
    /\ workerPc' = [workerPc EXCEPT ![w] = "scanning"]
    /\ UNCHANGED <<defaultScanConfig, scanInput, scanPc, oppChan, errChan,
                   chansClosed, collector, opportunities, errorCount, scanRet>>
    /\ UNCHANGED scanRest

\* scanSymbol(sym) and the send of its result
ScanSymbol(w) ==
    /\ w \in Workers
    /\ workerPc[w] = "scanning"
    /\ workerPc' = [workerPc EXCEPT ![w] = "scanned"]
    /\ oppChan' = IF scanInput[w].kind = "opp"
                  THEN Append(oppChan, TradingOpportunity(scanInput[w]))
                  ELSE oppChan
    /\ errChan' = IF scanInput[w].kind = "error"
                  THEN Append(errChan, scanInput[w].Symbol)
                  ELSE errChan
    /\ UNCHANGED <<defaultScanConfig, scanInput, scanPc, semaphore, chansClosed,
                   collector, opportunities, errorCount, scanRet>>
    /\ UNCHANGED scanRest

\* the deferred calls: <-semaphore, then wg.Done()
Release(w) ==
    /\ w \in Workers
    /\ workerPc[w] = "scanned"
    /\ semaphore' = semaphore - 1
    /\ workerPc' = [workerPc EXCEPT ![w] = "done"]
    /\ UNCHANGED <<defaultScanConfig, scanInput, scanPc, oppChan, errChan,
                   chansClosed, collector, opportunities, errorCount, scanRet>>
    /\ UNCHANGED scanRest

\* the closer without wg.Wait()
CloseChannelsEarly ==
    /\ scanPc = "collect"
    /\ ~chansClosed
    /\ chansClosed' = TRUE
    /\ UNCHANGED <<defaultScanConfig, scanInput, scanPc, workerPc, semaphore,
                   oppChan, errChan, collector, opportunities, errorCount, scanRet>>
    /\ UNCHANGED scanRest

\* the closer goroutine: wg.Wait() returns, both channels are closed
CloseChannels ==
    /\ scanPc = "collect"
    /\ ~chansClosed
    /\ \A w \in Workers : workerPc[w] = "done"
    /\ chansClosed' = TRUE
    /\ UNCHANGED <<defaultScanConfig, scanInput, scanPc, workerPc, semaphore,
                   oppChan, errChan, collector, opportunities, errorCount, scanRet>>
    /\ UNCHANGED scanRest

\* after a case of the select: leave the loop when both variables are nil,
\* then sort and return
AfterSelect(coll, opps) ==
    IF coll.oppChan = "nil" /\ coll.errChan = "nil"
    THEN /\ scanPc' = "returned"
         /\ \E sorted \in SortedByPriority(opps) :
                scanRet' = [opportunities |-> sorted, err |-> "nil"]
    ELSE UNCHANGED <<scanPc, scanRet>>

\* case opp, ok := <-oppChan
ReceiveOpp ==
    /\ scanPc = "collect"
    /\ collector.oppChan = "open"
    /\ IF oppChan # <<>>
       THEN /\ oppChan' = Tail(oppChan)
            /\ opportunities' = Append(opportunities, Head(oppChan))
            /\ UNCHANGED collector
       ELSE /\ chansClosed
            /\ collector' = [collector EXCEPT !.oppChan = "nil"]
            /\ UNCHANGED <<oppChan, opportunities>>
    /\ AfterSelect(collector', opportunities')
    /\ UNCHANGED <<defaultScanConfig, scanInput, workerPc, semaphore, errChan,
                   chansClosed, errorCount>>
    /\ UNCHANGED scanRest

\* case err, ok := <-errChan
ReceiveErr ==
    /\ scanPc = "collect"
    /\ collector.errChan = "open"
    /\ IF errChan # <<>>
       THEN /\ errChan' = Tail(errChan)
            /\ errorCount' = errorCount + 1
            /\ UNCHANGED collector
       ELSE /\ chansClosed
            /\ collector' = [collector EXCEPT !.errChan = "nil"]
            /\ UNCHANGED <<errChan, errorCount>>
    /\ AfterSelect(collector', opportunities)
    /\ UNCHANGED <<defaultScanConfig, scanInput, workerPc, semaphore, oppChan,
                   chansClosed, opportunities>>
    /\ UNCHANGED scanRest

NextScan ==
    \/ ScanMarket
    \/ \E w \in Workers : Acquire(w)
    \/ \E w \in Workers : ScanSymbol(w)
    \/ \E w \in Workers : Release(w)
    \/ CloseChannels
    \/ ReceiveOpp
    \/ ReceiveErr

SpecScan == InitScan /\ [][NextScan]_vars

\* the Go scheduler lets every goroutine that can take a step take it
SpecScanFair ==
    /\ SpecScan
    /\ WF_vars(ScanMarket)
    /\ \A w \in 1..MaxSymbols :
           WF_vars(Acquire(w)) /\ WF_vars(ScanSymbol(w)) /\ WF_vars(Release(w))
    /\ WF_vars(CloseChannels)
    /\ WF_vars(ReceiveOpp)
    /\ WF_vars(ReceiveErr)

ScanReturned == scanPc = "returned"

----------------------------------------------------------------------------
(* scanSymbol and calculatePriorityScore on their own *)

\* confidences 2.5, 64, 65 and 100
InSignalConfidences == {25, 640, 650, 1000}

InTradingSignals ==
    { TradingSignal(sig, conf, entry, stop, take) :
          sig \in {SignalOpenLong, SignalOpenShort, SignalHold},
          conf \in InSignalConfidences,
          entry \in {0, 10},
          stop \in {0, 8, 12},
          take \in {0, 4, 7, 13, 16} }

InLongerTerm ==
    {NilContext, LongerTermContext(13, 10), LongerTermContext(21, 10)}

InSnapshotsScored ==
    { Snapshot(10, rsi, macd, ema, funding, ltc) :
          rsi \in {30, 40, 60, 70},
          macd \in {-1, 1},
          ema \in {9, 11},
          funding \in {-2, 0, 2},
          ltc \in InLongerTerm }

InObtained ==
    {Obtained("market data unavailable", "nil", NoSnapshot, NoSignal),
     Obtained("nil", "AI call failed", NoSnapshot, NoSignal)}
    \cup {Obtained("nil", "nil", d, g) : d \in InSnapshotsScored, g \in InTradingSignals}

InScanConfigs ==
    {ScanConfig(650, 10, 60, TRUE, TRUE, 15),
     ScanConfig(650, 10, 60, TRUE, FALSE, 15),
     ScanConfig(650, 10, 60, FALSE, TRUE, 15)}

InitSymbol ==
    /\ EngineIdle
    /\ LifecycleIdle
    /\ ConfigIdle
    /\ ScanCallIdle
    /\ ParseIdle
    /\ defaultScanConfig \in InScanConfigs
    /\ symIn \in InObtained
    /\ symRet = [opp |-> NoOpportunity, err |-> "pending"]
    /\ symScore = [done |-> FALSE, confidence |-> 0, riskReward |-> 0,
                   tech |-> 0, volume |-> 0, total |-> 0]

symbolRest == <<engineVars, lifecycleVars, configVars, scanVars, parseVars>>

ScanOneSymbol ==
    /\ symRet.err = "pending"
    /\ symRet' = scanSymbol(defaultScanConfig, "SOLUSDT", symIn)
    /\ UNCHANGED <<symIn, symScore>>
    /\ UNCHANGED symbolRest

CalculatePriorityScore ==
    /\ ~symScore.done
    /\ symIn.dataErr = "nil"
    /\ symIn.signalErr = "nil"
    /\ symScore' = [done |-> TRUE,
                    confidence |-> confidenceScore(symIn.signal),
                    riskReward |-> riskRewardScore(symIn.signal),
                    tech |-> techScore(symIn.signal, symIn.data),
                    volume |-> volumeScore(symIn.data),
                    total |-> calculatePriorityScore(symIn.signal, symIn.data)]
    /\ UNCHANGED <<symIn, symRet>>
    /\ UNCHANGED symbolRest

NextSymbol == ScanOneSymbol \/ CalculatePriorityScore

SpecSymbol == InitSymbol /\ [][NextSymbol]_vars

SymbolScanned == symRet.err # "pending"

----------------------------------------------------------------------------
(* parseAIResponse on its own *)

MaxResponseLen == 3

ResponseAlphabet == {FenceJson, Fence, NL, "{", "}", "HOLD"}

\* a signal object as the prompt asks for it
RenderSignal(type, confidence) ==
    <<"{">> \o Member("signal", Str(type)) \o <<",">>
    \o Member("confidence", confidence) \o <<",">>
    \o Member("entry_price", <<"100">>) \o <<"}">>

SignalObjects ==
    { RenderSignal(type, confidence) :
          type \in validSignals \cup {"BUY"},
          confidence \in {<<"-1">>, <<"0">>, <<"90">>, <<"100">>, <<"1000">>,
                          <<FractionNumeral>>, Str("high")} }
    \cup {<<"{", "}">>, <<"{">>, <<"HOLD">>, <<>>,
          <<"{">> \o Member("note", <<"{", "}">>) \o <<",">>
              \o Member("signal", Str(SignalWait)) \o <<"}">>}

\* the ways a response wraps the object: bare, in a block closed by a fence
\* and a line feed, in a block closed by a fence at the end of the text, in a
\* block never closed, and in a block opened by a bare fence
Wrapped(body) ==
    {body,
     <<FenceJson, NL>> \o body \o <<NL, Fence, NL>>,
     <<FenceJson, NL>> \o body \o <<NL, Fence>>,
     <<FenceJson, NL>> \o body,
     <<Fence, NL>> \o body \o <<NL, Fence, NL>>}

ResponsePrefixes == {<<>>, <<"Analysis", SP, "follows.", NL>>}

InResponses ==
    SeqsUpTo(ResponseAlphabet, MaxResponseLen)
    \cup {prefix \o w : prefix \in ResponsePrefixes,
                        w \in UNION {Wrapped(body) : body \in SignalObjects}}

InitParse ==
    /\ EngineIdle
    /\ LifecycleIdle
    /\ ConfigIdle
    /\ ScanIdle
    /\ SymbolIdle
    /\ signalText \in InResponses
    /\ parseRet = ParsePending

ParseAIResponse ==
    /\ parseRet.kind = "pending"
    /\ parseRet' = parseAIResponse(signalText)
    /\ UNCHANGED signalText
    /\ UNCHANGED <<engineVars, lifecycleVars, configVars, scanVars, symbolVars>>

NextParse == ParseAIResponse

SpecParse == InitParse /\ [][NextParse]_vars

Parsed == parseRet.kind # "pending"

----------------------------------------------------------------------------
(* The feedback engine on its own: getAdaptiveBehaviorRecommendation applied *)
(* to a Sharpe ratio and an account equity                                   *)

InitAdaptive ==
    /\ CoreIdle
    /\ SystemIdle
    /\ FetchIdle
    /\ GatewayIdle
    /\ PromptIdle
    /\ aSharpe \in InSharpes
    /\ aEquity \in InAdaptiveEquities
    /\ aText = <<>>

GetAdaptiveBehaviorRecommendation ==
    /\ aText = <<>>
    /\ aText' = getAdaptiveBehaviorRecommendation(aSharpe, aEquity)
    /\ UNCHANGED <<aSharpe, aEquity>>
    /\ UNCHANGED <<coreVars, fetchVars, gatewayVars, promptVars, systemVars>>

NextAdaptive == GetAdaptiveBehaviorRecommendation

SpecAdaptive == InitAdaptive /\ [][NextAdaptive]_vars

Recommended == aText # <<>>

----------------------------------------------------------------------------
(* The prompt builder on its own: buildUserPrompt applied to a context *)

InitPrompt ==
    /\ CoreIdle
    /\ SystemIdle
    /\ FetchIdle
    /\ GatewayIdle
    /\ AdaptiveIdle
    /\ pCtx \in InPromptContexts
    /\ prompt = <<>>

BuildUserPrompt ==
    /\ prompt = <<>>
    /\ prompt' = buildUserPrompt(pCtx)
    /\ UNCHANGED pCtx
    /\ UNCHANGED <<coreVars, fetchVars, gatewayVars, adaptiveVars, systemVars>>

NextPrompt == BuildUserPrompt

SpecPrompt == InitPrompt /\ [][NextPrompt]_vars

PromptBuilt == prompt # <<>>

----------------------------------------------------------------------------
(* Properties of the feedback engine (specification SpecAdaptive) *)

Lines(text) == {text[i] : i \in DOMAIN text}

\* the lines of a text that begin with the unit head
LinesWith(text, head) == {l \in Lines(text) : l # Blank /\ l[1] = head}

TheLine(text, head) == CHOOSE l \in LinesWith(text, head) : TRUE

\* the unit following the unit key in a line, "none" when key is not in it
After(line, key) ==
    IF \E i \in 1..(Len(line) - 1) : line[i] = key
    THEN line[(CHOOSE i \in 1..(Len(line) - 1) : line[i] = key) + 1]
    ELSE "none"

\* the posture a recommendation text states
StatedPositions(text) == TheLine(text, "- positions:")[3]
StatedConfidence(text) == After(TheLine(text, "- selection:"), "confidence>=")
StatedRewardRisk(text) == After(TheLine(text, "- selection:"), "reward:risk>=")
StatedStop(text) == TheLine(text, "- stop-loss:")[3]
StatedAlt(text) == TheLine(text, "- position size:")[4]
StatedMajor(text) == TheLine(text, "- position size:")[7]

PostureLines == {"- position size:", "- stop-loss:", "- selection:", "- positions:"}

\* C18: every Sharpe value selects exactly one posture band, the boundary
\* values belonging to the upper band: below -0.5 at most 1 position with
\* confidence >= 95% and reward:risk >= 1:3; from -0.5 to below 0 at most 2
\* with confidence >= 80%; from 0 to below 0.7 at most 2; from 0.7 to below
\* 1.0 at most 3 with confidence >= 75%; from 1.0 on at most 3.
C18_OneBandPerSharpe ==
    Recommended =>
        /\ \A head \in PostureLines : Cardinality(LinesWith(aText, head)) = 1
        /\ aSharpe < -50 =>
               /\ StatedPositions(aText) = "1"
               /\ StatedConfidence(aText) = "95%"
               /\ StatedRewardRisk(aText) = "1:3"
        /\ (-50 <= aSharpe /\ aSharpe < 0) =>
               /\ StatedPositions(aText) = "2"
               /\ StatedConfidence(aText) = "80%"
        /\ (0 <= aSharpe /\ aSharpe < 70) => StatedPositions(aText) = "2"
        /\ (70 <= aSharpe /\ aSharpe < 100) =>
               /\ StatedPositions(aText) = "3"
               /\ StatedConfidence(aText) = "75%"
        /\ aSharpe >= 100 => StatedPositions(aText) = "3"

\* a Sharpe ratio of exactly -0.5 got the posture of the second band
C18_Witness ==
    /\ Recommended
    /\ aSharpe = -50
    /\ StatedPositions(aText) = "2"
    /\ StatedConfidence(aText) = "80%"

\* a Sharpe ratio of -0.8 got the posture of the first band
C18_WitnessFirstBand ==
    /\ Recommended
    /\ aSharpe = -80
    /\ StatedPositions(aText) = "1"

\* the stop-loss distance a text states, in 1/10 percent
StopDistance(unit) ==
    CASE unit = "-1%" -> 10
      [] unit = "-1.5%" -> 15
      [] unit = "-2%" -> 20

PositionCount(unit) ==
    CASE unit = "1" -> 1
      [] unit = "2" -> 2
      [] unit = "3" -> 3

\* the posture of text a is at most as aggressive as that of text b
PostureAtMost(a, b) ==
    /\ StatedAlt(a) <= StatedAlt(b)
    /\ StatedMajor(a) <= StatedMajor(b)
    /\ StopDistance(StatedStop(a)) <= StopDistance(StatedStop(b))
    /\ PositionCount(StatedPositions(a)) <= PositionCount(StatedPositions(b))

\* C19: for Sharpe values s1 <= s2 and the same account equity, the posture
\* for s2 has position sizes (altcoin and BTC/ETH) not smaller, a stop-loss
\* distance not smaller and a maximum number of positions not smaller than
\* the posture for s1.
C19_PostureMonotone ==
    Recommended =>
        \A s1 \in InSharpes :
            s1 <= aSharpe =>
                PostureAtMost(getAdaptiveBehaviorRecommendation(s1, aEquity), aText)

\* a recommendation whose posture is strictly above that of a lower Sharpe
\* ratio in every respect
C19_Witness ==
    /\ Recommended
    /\ aSharpe = 70
    /\ \E s1 \in InSharpes :
           /\ s1 < aSharpe
           /\ LET low == getAdaptiveBehaviorRecommendation(s1, aEquity)
              IN  /\ StatedAlt(low) < StatedAlt(aText)
                  /\ StatedMajor(low) < StatedMajor(aText)
                  /\ StopDistance(StatedStop(low)) < StopDistance(StatedStop(aText))
                  /\ PositionCount(StatedPositions(low))
                         < PositionCount(StatedPositions(aText))

----------------------------------------------------------------------------
(* Properties of the prompt builder (specification SpecPrompt) *)

\* the text block occurs in the text as consecutive lines
ContainsBlock(text, block) ==
    \E i \in 1..(Len(text) - Len(block) + 1) :
        SubSeq(text, i, i + Len(block) - 1) = block

HasSharpeLine(text) == LinesWith(text, SharpeHeading) # {}

HasRecommendation(text) == RecommendationHeader \in Lines(text)

PerformancePresent == pCtx.Performance # NilPerformance

\* C20: when the context has performance data, the user prompt contains the
\* current Sharpe ratio and the recommendation block that
\* getAdaptiveBehaviorRecommendation produces for that Sharpe ratio and the
\* account equity; when it has none, neither appears.
C20_PromptCarriesRecommendation ==
    PromptBuilt =>
        IF PerformancePresent
        THEN /\ HasSharpeLine(prompt)
             /\ HasRecommendation(prompt)
             /\ pCtx.Performance.kind = "analysis" =>
                    ContainsBlock(prompt,
                        getAdaptiveBehaviorRecommendation(
                            pCtx.Performance.SharpeRatio, pCtx.Account.TotalEquity))
        ELSE ~HasSharpeLine(prompt) /\ ~HasRecommendation(prompt)

\* what the builder does: the Sharpe ratio line alone, and only when the
\* performance data could be encoded
C20_SharpeLineOnly ==
    PromptBuilt =>
        /\ ~HasRecommendation(prompt)
        /\ HasSharpeLine(prompt) <=> pCtx.Performance.kind = "analysis"
        /\ pCtx.Performance.kind = "analysis" =>
               <<SharpeHeading, FormatFixed2(pCtx.Performance.SharpeRatio)>>
                   \in Lines(prompt)

\* a prompt built from performance data with Sharpe ratio -0.80 that shows
\* the ratio
C20_SharpeShown ==
    /\ PromptBuilt
    /\ pCtx.Performance = PerformanceAnalysis(-80)
    /\ <<SharpeHeading, "-0.80">> \in Lines(prompt)

HasBTCData == "BTCUSDT" \in DOMAIN pCtx.MarketDataMap

\* the lines of the prompt that belong to a BTC market section
BTCLines(text) ==
    {l \in Lines(text) :
         l # Blank /\ l[1] \in {BTCHeading, "## BTC market trend",
                                "BTC data unavailable"}}

\* C21: the user prompt always has the BTC market section; when the market
\* data map has no BTCUSDT entry the section states that BTC data is
\* unavailable.
C21_BTCSectionNeverOmitted ==
    PromptBuilt =>
        /\ BTCLines(prompt) # {}
        /\ ~HasBTCData => <<"BTC data unavailable">> \in BTCLines(prompt)

\* what the builder does: the BTC line exactly when there is BTC data
C21_BTCLineIffData ==
    PromptBuilt => (BTCLines(prompt) # {} <=> HasBTCData)

\* the BTC section of the earlier single-prompt builder is never omitted
C21_EarlierBuilderStates ==
    PromptBuilt =>
        /\ <<"## BTC market trend">> \in Lines(btcTrendSection(pCtx))
        /\ ~HasBTCData =>
               <<"BTC data unavailable">> \in Lines(btcTrendSection(pCtx))

----------------------------------------------------------------------------
(* Properties of the trader lifecycle (specification SpecLifecycle) *)

\* the goroutines that are inside the loop of trader.Run()
ActiveLoops == {g \in Starters : runs[g] \in {"looping", "cycle"}}

C22_OneLoopPerRequest ==
    \A h \in StartHandlers : reqPc[h] = "rejected" => runs[h] = "none"

----------------------------------------------------------------------------
(* Properties of the shared configuration (specification SpecConfig) *)

\* what instance i configured
Configured(i) == StoreAll(DefaultAIConfig, ConfigWrites(i, setterOf[i]))

RequestFields == {"Provider", "APIKey", "BaseURL", "Model"}

\* C23: the request of an instance's AI call carries the provider, API key,
\* base URL and model that this instance configured, whatever the other
\* instance configures in between.
C23_RequestUsesOwnConfig ==
    \A i \in Instances :
        request[i].sent =>
            \A f \in RequestFields : request[i][f] = Configured(i)[f]

\* without a second instance writing, the request carries the instance's
\* own configuration
C23_AloneUsesOwnConfig ==
    \A i \in Instances :
        (request[i].sent /\ \A j \in Instances \ {i} : instPc[j] = [phase |-> "configure", step |-> 0])
            => \A f \in RequestFields : request[i][f] = Configured(i)[f]

\* a request that mixes the two configurations: the key of one instance
\* sent to the endpoint of the other
C23_MixedRequest ==
    \E i \in Instances :
        /\ request[i].sent
        /\ request[i].APIKey = Configured(i).APIKey
        /\ request[i].BaseURL # Configured(i).BaseURL

----------------------------------------------------------------------------
(* Properties of the scanner (specifications SpecScan and SpecScanFair) *)

\* the workers that are executing scanSymbol
InFlight == {w \in Workers : workerPc[w] = "scanning"}

\* C25: at every moment at most MaxConcurrent per-symbol scans are in flight.
C25_AtMostMaxConcurrent ==
    InFlight # {} => Cardinality(InFlight) <= defaultScanConfig.MaxConcurrent

\* one scan in flight fills the semaphore and another worker waits for it
C25_Witness ==
    /\ defaultScanConfig.MaxConcurrent = 1
    /\ Cardinality(InFlight) = 1
    /\ \E w \in Workers : workerPc[w] = "spawned"

\* the opportunities the scans of the list produce, in list order
Produced ==
    LET found == SelectSeq(scanInput, LAMBDA scan : scan.kind = "opp")
    IN  [i \in 1..Len(found) |-> TradingOpportunity(found[i])]

IsRearrangement(a, b) ==
    /\ Len(a) = Len(b)
    /\ \E f \in Perms(Len(a)) : \A i \in 1..Len(a) : a[i] = b[f[i]]

NonIncreasingPriority(list) ==
    \A i, j \in 1..Len(list) : i < j => list[i].Priority >= list[j].Priority

\* C26: for a non-empty list ScanMarket returns a nil error and exactly the
\* opportunities the scans produced, none lost or duplicated, by
\* non-increasing priority; for an empty list it returns an error.
C26_AllResultsCollected ==
    ScanReturned =>
        IF Len(scanInput) = 0
        THEN scanRet.err # "nil"
        ELSE /\ scanRet.err = "nil"
             /\ IsRearrangement(scanRet.opportunities, Produced)
             /\ NonIncreasingPriority(scanRet.opportunities)

\* a scan that failed, and two opportunities returned in the order opposite
\* to the order of their symbols
C26_Witness ==
    /\ ScanReturned
    /\ Len(scanRet.opportunities) = 2
    /\ scanRet.opportunities[1].Priority > scanRet.opportunities[2].Priority
    /\ Produced[1].Priority < Produced[2].Priority

\* a failed scan is left out and the batch still succeeds
C26_WitnessPartialFailure ==
    /\ ScanReturned
    /\ scanRet.err = "nil"
    /\ errorCount = 1
    /\ Len(scanRet.opportunities) = 1

\* C27: for every non-empty list and every installed configuration
\* ScanMarket eventually returns.
C27_ScanReturns == <>ScanReturned

\* with room for at least one worker ScanMarket returns
C27_ReturnsWithRoom == (defaultScanConfig.MaxConcurrent >= 1) => <>ScanReturned

\* MaxConcurrent 0: every worker waits at the semaphore, the channels stay
\* open and the collector waits
C27_AllBlocked ==
    /\ defaultScanConfig.MaxConcurrent = 0
    /\ scanPc = "collect"
    /\ Workers # {}
    /\ \A w \in Workers : workerPc[w] = "spawned"
    /\ ~chansClosed
    /\ ~ENABLED NextScan

----------------------------------------------------------------------------
(* Properties of scanSymbol and of the score (specification SpecSymbol) *)

\* the gates, stated on an opportunity and the configuration
PassesGates(config, opp) ==
    /\ opp.Signal \in {SignalOpenLong, SignalOpenShort}
    /\ opp.Signal = SignalOpenLong => config.EnableLong
    /\ opp.Signal = SignalOpenShort => config.EnableShort
    /\ opp.Confidence >= config.MinConfidence
    /\ opp.EntryPrice > 0 /\ opp.StopLoss > 0 /\ opp.TakeProfit > 0
    /\ opp.Signal = SignalOpenLong =>
           opp.StopLoss < opp.EntryPrice /\ opp.EntryPrice < opp.TakeProfit
    /\ opp.Signal = SignalOpenShort =>
           opp.TakeProfit < opp.EntryPrice /\ opp.EntryPrice < opp.StopLoss
    /\ opp.RiskRewardRatio.risk > 0
    /\ opp.RiskRewardRatio.reward * 10
           >= config.MinRiskRewardRatio * opp.RiskRewardRatio.risk
    /\ opp.Priority >= config.MinPriority

\* the opportunity a signal and a snapshot would make, gates aside
Candidate(symbol, in) ==
    [nil |-> FALSE, Symbol |-> symbol, Signal |-> in.signal.Signal,
     Confidence |-> in.signal.Confidence, EntryPrice |-> in.signal.EntryPrice,
     StopLoss |-> in.signal.StopLoss, TakeProfit |-> in.signal.TakeProfit,
     CurrentPrice |-> in.data.CurrentPrice,
     Priority |-> calculatePriorityScore(in.signal, in.data),
     RiskRewardRatio |->
         LET long  == in.signal.Signal = SignalOpenLong
             risk   == IF long THEN in.signal.EntryPrice - in.signal.StopLoss
                       ELSE in.signal.StopLoss - in.signal.EntryPrice
             reward == IF long THEN in.signal.TakeProfit - in.signal.EntryPrice
                       ELSE in.signal.EntryPrice - in.signal.TakeProfit
         IN  [reward |-> reward, risk |-> risk]]

C28_WitnessDropped ==
    /\ SymbolScanned
    /\ symRet.err = "nil"
    /\ symRet.opp.nil
    /\ symIn.signal.Signal = SignalOpenShort
    /\ symIn.signal.Confidence = 1000
    /\ symIn.signal.TakeProfit = 0
    /\ symIn.signal.EntryPrice = 10
    /\ symIn.signal.StopLoss = 12
    /\ calculatePriorityScore(symIn.signal, symIn.data) >= 60
    /\ defaultScanConfig.EnableShort

\* C29: for a signal whose confidence is within 0..100 the score is within
\* 0..100, the sum of a confidence part in 0..40, a reward/risk part in
\* 0..25, a technical part in 0..25 and a volume part in 0..10.
C29_ScoreWithinRange ==
    (symScore.done /\ symIn.signal.Confidence \in 0..1000) =>
        /\ symScore.confidence \in 0..40
        /\ symScore.riskReward \in 0..25
        /\ symScore.tech \in 0..25
        /\ symScore.volume \in 0..10
        /\ symScore.total = symScore.confidence + symScore.riskReward
                            + symScore.tech + symScore.volume
        /\ symScore.total \in 0..100

\* the score 100 was reached
C29_Witness ==
    /\ symScore.done
    /\ symScore.total = 100
    /\ symScore.tech = 25

----------------------------------------------------------------------------
(* Properties of parseAIResponse (specification SpecParse) *)

\* C30: parseAIResponse is total: for every response it returns a signal of
\* one of the six types with a confidence within 0..100, or an error, and it
\* never indexes outside the response.
C30_ParseIsTotal ==
    Parsed =>
        \/ parseRet.kind = "error"
        \/ /\ parseRet.kind = "signal"
           /\ parseRet.signal.Signal \in validSignals
           /\ parseRet.signal.Confidence \in 0..1000

\* a response of six bytes or more, or one with the opening fence, is parsed
\* to a signal or an error
C30_TotalFromSixBytes ==
    (Parsed /\ (ByteLen(signalText) >= 6 \/ IndexFenceJson(signalText) # -1)) =>
        \/ parseRet.kind = "error"
        \/ /\ parseRet.kind = "signal"
           /\ parseRet.signal.Signal \in validSignals
           /\ parseRet.signal.Confidence \in 0..1000

\* a panic is the slice at offset 6 of a short response without fences
C30_PanicOnlyWhenShort ==
    (Parsed /\ parseRet.kind = "panic") =>
        /\ ByteLen(signalText) < 6
        /\ IndexFenceJson(signalText) = -1
        /\ IndexFenceNewline(signalText) = -1

\* the response "{}" made the call panic
C30_ShortResponsePanics ==
    /\ Parsed
    /\ signalText = <<"{", "}">>
    /\ parseRet.kind = "panic"

\* a confidence of 1000 in a fenced block was replaced by 50
C30_ConfidenceReplaced ==
    /\ Parsed
    /\ parseRet.kind = "signal"
    /\ IndexFenceJson(signalText) # -1
    /\ \E i \in 1..Len(signalText) : signalText[i] = "1000"
    /\ parseRet.signal.Confidence = 500

\* a bare object after some prose was parsed to OPEN_LONG with confidence 90
C30_BareObjectParsed ==
    /\ Parsed
    /\ parseRet.kind = "signal"
    /\ IndexFenceJson(signalText) = -1
    /\ IndexBrace(signalText) > 0
    /\ parseRet.signal.Signal = SignalOpenLong
    /\ parseRet.signal.Confidence = 900
    /\ parseRet.signal.EntryPrice = 1000

\* a block closed by a fence at the very end of the text was parsed
C30_BlockWithoutLineFeedParsed ==
    /\ Parsed
    /\ parseRet.kind = "signal"
    /\ IndexFenceJson(signalText) # -1
    /\ IndexFenceNewline(signalText) = -1
    /\ parseRet.signal.Signal = SignalWait

----------------------------------------------------------------------------
(* Properties of the decision cycle (specification Spec) *)

Invalid(ds, eq) == {i \in 1..Len(ds) : validateDecision(ds[i], eq) # "nil"}

\* the batch was decoded: the parser ran and extracted a decision list
Decoded == Returned /\ aiErr = NoError /\ err.kind # "extract"

\* C1: GetFullTradingDecision returns a decision object without error only
\* if every decision of the decoded batch passes validateDecision; when any
\* decision of the batch is invalid it returns an error and the nil object,
\* so no part of the batch is handed on.
C1_AllOrNothing ==
    Returned =>
        /\ (retErr = NoError) <=> ~retDecision.nil
        /\ ~retDecision.nil =>
               /\ Decoded
               /\ retDecision.Decisions = decision.Decisions
               /\ Invalid(retDecision.Decisions, equity) = {}
        /\ (Decoded /\ Invalid(decision.Decisions, equity) # {}) =>
               /\ retErr # NoError
               /\ retDecision = NilDecision

\* a batch of two or more decisions, some valid and one invalid, was rejected
\* as a whole
C1_Witness ==
    /\ Decoded
    /\ Len(decision.Decisions) >= 2
    /\ Invalid(decision.Decisions, equity) # {}
    /\ Invalid(decision.Decisions, equity) # 1..Len(decision.Decisions)
    /\ retDecision = NilDecision
    /\ retErr.kind = "validate"

\* C3: when the batch decodes but fails validation, the caller of
\* GetFullTradingDecision receives, with the error, the decoded decision list
\* and the reasoning trace.
C3_CallerReceivesBatch ==
    (Decoded /\ err.kind = "validate") =>
        /\ retErr # NoError
        /\ ~retDecision.nil
        /\ retDecision.Decisions = decision.Decisions
        /\ retDecision.CoTTrace = decision.CoTTrace

InText(c, s) == \E i \in 1..Len(s) : s[i] = c

\* no JSON array can be obtained from the response: no '[', no matching ']',
\* or the bracketed text does not decode
NoArrayObtained ==
    /\ Returned
    /\ aiErr = NoError
    /\ \/ ~InText(LB, aiResponse)
       \/ findMatchingBracket(aiResponse, Index(aiResponse, LB)) = -1
       \/ err.cause = "json decode"

\* C4: when no JSON array can be obtained from the response (no '[', no
\* matching ']', or the bracketed text does not decode),
\* parseFullDecisionResponse returns an error with a non-nil result whose
\* trace is the trace extracted from the response and whose decision list is
\* empty.
C4_TraceSurvivesExtractError ==
    NoArrayObtained =>
        /\ err.kind = "extract"
        /\ ~decision.nil
        /\ decision.CoTTrace = extractCoTTrace(aiResponse)
        /\ decision.Decisions = <<>>
        /\ err.cot = decision.CoTTrace

\* a response with reasoning text whose bracketed part does not decode
C4_Witness ==
    /\ NoArrayObtained
    /\ err.cause = "json decode"
    /\ ~decision.nil
    /\ Index(aiResponse, LB) > 0
    /\ decision.CoTTrace # <<>>
    /\ decision.CoTTrace = TrimSpace(Slice(aiResponse, 0, Index(aiResponse, LB)))


\* the text strictly before the first '[' of s, trimmed
BeforeFirstBracket(s) ==
    LET first == CHOOSE i \in 1..Len(s) : s[i] = LB /\ \A j \in 1..(i - 1) : s[j] # LB
    IN  TrimSpace(SubSeq(s, 1, first - 1))

\* C5: for every response that contains '[', the reasoning trace is the
\* trimmed text strictly before the first '[' (empty when the response
\* begins with '[') and holds no part of the JSON array.
C5_TraceIsTextBeforeArray ==
    (Returned /\ aiErr = NoError /\ InText(LB, aiResponse)) =>
        decision.CoTTrace = BeforeFirstBracket(aiResponse)

\* String-aware reference scan: the position (0-based) of the ']' that closes
\* the array opened at the first '[', brackets inside string values not
\* counted; -1 when there is none.
RefStart == [done |-> FALSE, depth |-> 0, inString |-> FALSE, at |-> -1]

RefStep(s, i, st) ==
    IF st.done THEN st
    ELSE IF s[i + 1] = DQ THEN [st EXCEPT !.inString = ~@]
    ELSE IF st.inString THEN st
    ELSE IF s[i + 1] = LB THEN [st EXCEPT !.depth = @ + 1]
    ELSE IF s[i + 1] = RB
         THEN IF st.depth = 1 THEN [st EXCEPT !.done = TRUE, !.at = i]
              ELSE [st EXCEPT !.depth = @ - 1]
    ELSE st

RECURSIVE RefScan(_, _, _, _)
RefScan(s, lo, hi, st) ==
    IF lo >= hi \/ st.done THEN st
    ELSE IF hi = lo + 1 THEN RefStep(s, lo, st)
    ELSE LET mid == (lo + hi) \div 2
         IN  RefScan(s, mid, hi, RefScan(s, lo, mid, st))

TopLevelEnd(s) ==
    IF Index(s, LB) = -1 THEN -1
    ELSE RefScan(s, Index(s, LB), Len(s), RefStart).at

\* the double quotes of s from the first '[' up to position i (1-based)
QuotesBefore(s, i) ==
    Cardinality({j \in (Index(s, LB) + 1)..(i - 1) : s[j] = DQ})

\* some '[' or ']' after the first '[' lies inside a string value
BracketInString(s) ==
    \E i \in (Index(s, LB) + 2)..Len(s) :
        s[i] \in {LB, RB} /\ QuotesBefore(s, i) % 2 = 1

HasBracketInString(s) ==
    InText(LB, s) /\ BracketInString(s)

\* C6: when the decision array holds '[' or ']' inside string values, the
\* text extractDecisions selects ends at the ']' that closes the array at top
\* level.
C6_BracketsInStringsIgnored ==
    (Returned /\ aiErr = NoError /\ HasBracketInString(aiResponse)
              /\ TopLevelEnd(aiResponse) # -1) =>
        findMatchingBracket(aiResponse, Index(aiResponse, LB)) = TopLevelEnd(aiResponse)

HasDoubleQuote(text) == InText(DQ, text) \/ InText(LDQ, text) \/ InText(RDQ, text)

\* the quote substitution of the normalization, on a reasoning text
QuoteSubstituted(text) ==
    [i \in 1..Len(text) |->
        IF text[i] \in {LSQ, RSQ} THEN SQ
        ELSE IF text[i] \in {LDQ, RDQ} THEN DQ ELSE text[i]]

\* C7: a decision array whose reasoning string stands between the smart
\* quotes U+201C and U+201D decodes, and the decision's reasoning is the
\* text between the quotes.  Stated for texts that hold no double quotation
\* mark, the text compared up to the quote substitution.
C7_SmartQuotesRoundTrip ==
    \A p \in Prefixes, x \in QuotedIntents :
        (/\ Returned
         /\ aiErr = NoError
         /\ x.quote = SmartQuotes
         /\ ~HasDoubleQuote(x.reasoning)
         /\ aiResponse = RenderResponse(p, <<x>>)) =>
            /\ err.kind # "extract"
            /\ Len(decision.Decisions) = 1
            /\ decision.Decisions[1].Reasoning = QuoteSubstituted(x.reasoning)


\* the stages of a cycle in their order: context assembly, prompt building,
\* AI call, parsing, validation
StageOrder ==
    <<"fetchMarketDataForContext", "buildSystemPrompt", "buildUserPrompt",
      "callAIWithMessages", "extractCoTTrace", "extractDecisions",
      "validateDecisions">>

ParserRan == InText("extractCoTTrace", stages) \/ InText("extractDecisions", stages)

ValidatorRan == InText("validateDecisions", stages)

\* C17: the stages of a call run in the order context assembly, prompt
\* building, AI call, parsing, validation, none before an earlier one; when
\* the AI call fails GetFullTradingDecision returns an error and no decision
\* object, and neither the parser nor the validator has run.
C17_StagesInOrder ==
    Returned =>
        /\ Len(stages) <= Len(StageOrder)
        /\ stages = SubSeq(StageOrder, 1, Len(stages))
        /\ InText("callAIWithMessages", stages)
        /\ aiErr # NoError =>
               /\ retErr # NoError
               /\ retDecision = NilDecision
               /\ ~ParserRan
               /\ ~ValidatorRan
               /\ decision = NilDecision
        /\ aiErr = NoError => ParserRan
        /\ ValidatorRan <=> (aiErr = NoError /\ err.kind # "extract")

\* the AI call failed: an error, no decision object, the parser did not run
C17_Witness ==
    /\ Returned
    /\ aiErr # NoError
    /\ retErr.wrap = "call AI API failed"
    /\ retDecision = NilDecision
    /\ stages = stagesToAICall

----------------------------------------------------------------------------
(* Properties of the validator (specification SpecValidate) *)

IsOpen(d) == d.Action \in {<<"open_long">>, <<"open_short">>}

StopsValid(d) ==
    /\ d.StopLoss > 0
    /\ d.TakeProfit > 0
    /\ d.Action = <<"open_long">> => d.StopLoss < d.TakeProfit
    /\ d.Action = <<"open_short">> => d.StopLoss > d.TakeProfit

ClaimMajor(d) == d.Symbol \in {<<"BTCUSDT">>, <<"ETHUSDT">>}

LeverageCap(d) == IF ClaimMajor(d) THEN 50 ELSE 20

LeverageValid(d) == 1 <= d.Leverage /\ d.Leverage <= LeverageCap(d)

SizeValid(d, eq) ==
    0 < d.PositionSizeUSD /\ d.PositionSizeUSD <= SizeBound(ClaimMajor(d), eq)

\* one decision was validated
ValidatedOne == Validated /\ Len(vDecisions) = 1

\* C2: validateDecisions examines the batch in order and stops at the first
\* invalid decision: it returns nil iff no decision is invalid, otherwise
\* its error carries the 1-based position of the first invalid decision and
\* no later decision is examined.
C2_FirstInvalidReported ==
    Validated =>
        LET bad == Invalid(vDecisions, vEquity)
        IN  /\ (vResult.err = "nil") <=> (bad = {})
            /\ bad = {} => vResult.index = 0 /\ vResult.examined = Len(vDecisions)
            /\ bad # {} =>
                   /\ vResult.index \in bad
                   /\ \A j \in bad : vResult.index <= j
                   /\ vResult.examined = vResult.index
                   /\ vResult.err = validateDecision(vDecisions[vResult.index], vEquity)

\* three decisions, only the 2nd invalid: index 2
C2_Witness ==
    /\ Validated
    /\ Len(vDecisions) = 3
    /\ Invalid(vDecisions, vEquity) = {2}
    /\ vResult.index = 2
    /\ vResult.examined = 2

C9_PositionSizeRange ==
    (/\ ValidatedOne
     /\ IsOpen(vDecisions[1])
     /\ LeverageValid(vDecisions[1])
     /\ StopsValid(vDecisions[1])) =>
        (vResult.err = "nil") <=> SizeValid(vDecisions[1], vEquity)

\* a position size exactly at the bound passes
C9_Witness ==
    /\ ValidatedOne
    /\ IsOpen(vDecisions[1])
    /\ ~ClaimMajor(vDecisions[1])
    /\ vDecisions[1].PositionSizeUSD = SizeBound(FALSE, vEquity)
    /\ vResult.err = "nil"

\* C10: every open decision of a batch that passes validation has stop-loss
\* and take-profit above 0 and strictly ordered (stop-loss < take-profit
\* for open_long, stop-loss > take-profit for open_short); equal prices are
\* rejected.
C10_StopsOrdered ==
    /\ (Validated /\ vResult.err = "nil") =>
           \A i \in 1..Len(vDecisions) : IsOpen(vDecisions[i]) => StopsValid(vDecisions[i])
    /\ (ValidatedOne /\ IsOpen(vDecisions[1])
          /\ vDecisions[1].StopLoss = vDecisions[1].TakeProfit) => vResult.err # "nil"

\* an open_short whose stop-loss equals its take-profit is rejected for that
C10_Witness ==
    /\ ValidatedOne
    /\ vDecisions[1].Action = <<"open_short">>
    /\ vDecisions[1].StopLoss > 0
    /\ vDecisions[1].StopLoss = vDecisions[1].TakeProfit
    /\ vResult.err = "short stop loss not above take profit"
\* C11: a decision whose action is exactly hold, wait, close_long or
\* close_short passes whatever its leverage, position size, stop-loss and
\* take-profit and whatever the equity; a decision whose action is none of the
\* six recognised values is rejected with an error that names the action.
C11_NonOpenByActionOnly ==
    (ValidatedOne /\ ~IsOpen(vDecisions[1])) =>
        LET d == vDecisions[1]
            recognised == d.Action \in {<<"hold">>, <<"wait">>, <<"close_long">>,
                                        <<"close_short">>}
        IN  /\ recognised => vResult.err = "nil"
            /\ ~recognised =>
                   /\ vResult.err = "invalid action"
                   /\ vResult.index = 1
                   /\ vResult.args = <<d.Action>>

\* a wait decision with negative leverage and prices passes under a negative
\* equity
C11_Witness ==
    /\ ValidatedOne
    /\ vDecisions[1].Action = <<"wait">>
    /\ vDecisions[1].Leverage < 0
    /\ vDecisions[1].StopLoss < 0
    /\ vEquity < 0
    /\ vResult.err = "nil"

\* a differently-cased action name is rejected by name
C11_WitnessRejected ==
    /\ ValidatedOne
    /\ vDecisions[1].Action = <<"OPEN_LONG">>
    /\ vResult.err = "invalid action"
    /\ vResult.args = <<<<"OPEN_LONG">>>>
\* C12: every open decision of a batch that passes validation carries the
\* fields required for opening: leverage, position size, stop-loss and
\* take-profit, and a confidence within 0-100.
C12_OpenFieldsComplete ==
    (Validated /\ vResult.err = "nil") =>
        \A i \in 1..Len(vDecisions) :
            IsOpen(vDecisions[i]) =>
                /\ vDecisions[i].Leverage > 0
                /\ vDecisions[i].PositionSizeUSD > 0
                /\ vDecisions[i].StopLoss > 0
                /\ vDecisions[i].TakeProfit > 0
                /\ vDecisions[i].Confidence \in 0..100

\* an open decision was answered without the keys confidence and risk_usd,
\* decoded, and passed validation
C12_OmittedFieldsPass ==
    /\ Returned
    /\ retErr = NoError
    /\ \E i \in 1..Len(retDecision.Decisions) : IsOpen(retDecision.Decisions[i])
    /\ ~InText("confidence", aiResponse)
    /\ ~InText("risk_usd", aiResponse)
----------------------------------------------------------------------------
(* Properties of the assembler (specification SpecFetch) *)

HeldSymbols == SymbolsOf(ctx.Positions)

CandidateSymbols == SymbolsOf(ctx.CandidateCoins)

InMap(symbol) == symbol \in DOMAIN ctx.MarketDataMap

FetchOk(symbol) == source[symbol].err = "nil"

\* latest open interest x current price of the snapshot of the symbol, in USD
OIValue(symbol) ==
    source[symbol].data.OpenInterest.Latest * source[symbol].data.CurrentPrice

HasOI(symbol) == ~source[symbol].data.OpenInterest.nil

LiquidityThreshold == 15 * 1000000

\* C13: after fetchMarketDataForContext every held symbol whose fetch
\* succeeded is in MarketDataMap whatever its open-interest value, also when
\* it is a candidate too, and a symbol that is only a candidate and whose
\* open-interest value is below 15,000,000 USD is not in MarketDataMap.
C13_HeldKeptCandidateFiltered ==
    FetchedContext =>
        /\ \A y \in HeldSymbols : FetchOk(y) => InMap(y)
        /\ \A y \in CandidateSymbols \ HeldSymbols :
               (FetchOk(y) /\ HasOI(y) /\ OIValue(y) < LiquidityThreshold) => ~InMap(y)

\* C14: after fetchMarketDataForContext every symbol of MarketDataMap that is
\* not held has an open-interest record and an open-interest value of at
\* least 15,000,000 USD.
C14_CandidatesInMapAreLiquid ==
    FetchedContext =>
        \A y \in DOMAIN ctx.MarketDataMap \ HeldSymbols :
            HasOI(y) /\ OIValue(y) >= LiquidityThreshold

\* the symbol is held, or its snapshot has an open-interest value of at least
\* 15,000,000 USD
PassesLiquidityRule(y) ==
    y \in HeldSymbols \/ (HasOI(y) /\ OIValue(y) >= LiquidityThreshold)

\* C15: fetchMarketDataForContext returns no error whatever fetches fail; a
\* symbol whose fetch failed is not in MarketDataMap, every requested symbol
\* whose fetch succeeded and that passes the liquidity rule is, and a failed
\* open-interest-momentum fetch leaves OITopDataMap empty and MarketDataMap
\* as it is with a successful one.
C15_FetchFailuresSwallowed ==
    FetchedContext =>
        /\ fetchRet = "nil"
        /\ \A y \in FetchSymbols : ~FetchOk(y) => ~InMap(y)
        /\ \A y \in HeldSymbols \cup CandidateSymbols :
               (FetchOk(y) /\ PassesLiquidityRule(y)) => InMap(y)
        /\ \A y \in DOMAIN ctx.MarketDataMap : ctx.MarketDataMap[y] = source[y].data
        /\ oiTop.err # "nil" =>
               /\ ctx.OITopDataMap = EmptyMap
               /\ \A top \in InOITops :
                      ctx.MarketDataMap =
                          fetchMarketDataForContext(
                              TradingContext(ctx.Positions, ctx.CandidateCoins),
                              source, top).ctx.MarketDataMap

\* one symbol failed, the other was fetched and kept, and the momentum fetch
\* failed
C15_Witness ==
    /\ FetchedContext
    /\ fetchRet = "nil"
    /\ oiTop.err # "nil"
    /\ \E y, z \in HeldSymbols \cup CandidateSymbols :
           ~FetchOk(y) /\ FetchOk(z) /\ InMap(z) /\ ~InMap(y)
----------------------------------------------------------------------------
(* Properties of the gateway (specification SpecGateway) *)

\* the failure classes that are transient: timeout, connection reset or
\* refused, EOF, DNS failure
TransientClasses == {"timeout", "reset", "refused", "eof", "dns"}

TransientAttempt(i) == gwLog[i].ep.class \in TransientClasses

\* C16: one call makes at most 3 attempts; an attempt is followed by another
\* only if it failed transiently; a success is returned at once; a
\* non-transient failure (an error-status response, an undecodable body, ...)
\* ends the call with its error on the attempt on which it occurs; after 3
\* transient failures the call ends with an error.
C16_RetryOnlyTransient ==
    /\ Len(gwLog) <= 3
    /\ \A i \in 1..Len(gwLog) :
           /\ i < Len(gwLog) => TransientAttempt(i)
           /\ gwLog[i].ep.class = "ok" =>
                  /\ i = Len(gwLog)
                  /\ GatewayReturned
                  /\ gwRet = [result |-> gwLog[i].r.result, err |-> NoMessage]
           /\ (gwLog[i].ep.class # "ok" /\ ~TransientAttempt(i)) =>
                  /\ i = Len(gwLog)
                  /\ GatewayReturned
                  /\ gwRet = [result |-> <<>>, err |-> gwLog[i].r.err]
    /\ (Len(gwLog) = 3 /\ \A i \in 1..3 : TransientAttempt(i)) =>
           GatewayReturned /\ gwRet.err # NoMessage

\* an error-status response was followed by another attempt
C16_StatusErrorRetried ==
    /\ Len(gwLog) >= 2
    /\ gwLog[1].ep.class = "status"

\* the waits are 2 s after the 1st and 4 s after the 2nd attempt, and the
\* wait after attempt j was made (gwWaits lists the waits in order, so that
\* wait j follows attempt j)
WaitsLinear ==
    /\ Len(gwWaits) <= maxRetries - 1
    /\ Len(gwWaits) <= Len(gwLog)
    /\ \A j \in 1..Len(gwWaits) : gwWaits[j] = 2 * j

\* attempt j was followed by a wait
WaitedAfter(j) == j <= Len(gwWaits)

\* C24: the wait between attempts grows linearly (2 s, then 4 s); a wait
\* happens only between a transient failure and the next attempt; no wait
\* happens after the 3rd attempt, after a success or after a non-transient
\* failure.
C24_WaitsOnlyAfterTransient ==
    /\ WaitsLinear
    /\ \A j \in 1..Len(gwLog) :
           WaitedAfter(j) =>
               /\ TransientAttempt(j)
               /\ j < maxRetries
               /\ (j < Len(gwLog) \/ gwPc = "loop")
    /\ \A j \in 1..Len(gwLog) :
           (gwLog[j].ep.class = "ok" \/ ~TransientAttempt(j) \/ j = maxRetries)
               => ~WaitedAfter(j)

\* what the gateway does: the same, with "transient" read as "an error that
\* isRetryableError accepts"
C24_WaitsOnlyAfterRetryable ==
    /\ WaitsLinear
    /\ \A j \in 1..Len(gwLog) :
           WaitedAfter(j) <=>
               /\ gwLog[j].r.err # NoMessage
               /\ isRetryableError(gwLog[j].r.err)
               /\ j < maxRetries
    /\ \A j \in 1..Len(gwLog) :
           WaitedAfter(j) => (j < Len(gwLog) \/ gwPc = "loop")

\* two waits of 2 s and 4 s were made and the third attempt failed too
C24_TwoWaits ==
    /\ GatewayReturned
    /\ gwWaits = <<2, 4>>
    /\ Len(gwLog) = 3
    /\ gwRet.err # NoMessage

\* a wait was made after an error-status response
C24_WaitAfterStatusError ==
    /\ WaitedAfter(1)
    /\ gwLog[1].ep.class = "status"


====
